---- MODULE Spec2Model ----
(***************************************************************************)
(* Model of the ML EC2 node selector: the prediction CLI (src/ml/predict.py)*)
(* with its feature engineering, clamped prediction and confidence label,  *)
(* and the column contract it shares with the dataset generator and the    *)
(* trainer (src/resources).                                                *)
(*                                                                         *)
(* Python values are records [k, n, s]: k is the Python type ("int",       *)
(* "bool", "float", "inf", "nan", "str", "null", "list"; "inf" and "nan"   *)
(* are floats), n the number (a float is held in thousandths, an infinity  *)
(* holds its sign) and s the characters of a string, one per element.      *)
(***************************************************************************)
EXTENDS Integers, Sequences, FiniteSets, TLC

\* ------------------------------------------------------------------ values

IntV(i) == [k |-> "int", n |-> i, s |-> <<>>]
BoolV(b) == [k |-> "bool", n |-> IF b THEN 1 ELSE 0, s |-> <<>>]
FloatV(m) == [k |-> "float", n |-> m, s |-> <<>>]
InfV(sign) == [k |-> "inf", n |-> sign, s |-> <<>>]
NaNV == [k |-> "nan", n |-> 0, s |-> <<>>]
StrV(chars) == [k |-> "str", n |-> 0, s |-> chars]
NoneV == [k |-> "null", n |-> 0, s |-> <<>>]
ListV == [k |-> "list", n |-> 1, s |-> <<>>]

\* isinstance(v, int): bool is a subclass of int
IsInstanceInt(v) == v.k \in {"int", "bool"}
IsInstanceStr(v) == v.k = "str"
IsNumber(v) == v.k \in {"int", "bool", "float", "inf", "nan"}
IsFinite(v) == v.k \in {"int", "bool", "float"}
\* the value of a finite number, in thousandths
Milli(v) == IF v.k = "float" THEN v.n ELSE v.n * 1000

\* Python truthiness
Truthy(v) ==
    CASE v.k \in {"int", "bool", "float"} -> v.n # 0
      [] v.k \in {"inf", "nan"} -> TRUE
      [] v.k = "str" -> v.s # <<>>
      [] v.k = "null" -> FALSE
      [] OTHER -> TRUE

\* a < b on Python numbers: every comparison with NaN is false
PyLt(a, b) ==
    CASE a.k = "nan" \/ b.k = "nan" -> FALSE
      [] a.k = "inf" -> a.n < 0 /\ ~(b.k = "inf" /\ b.n < 0)
      [] b.k = "inf" -> b.n > 0
      [] OTHER -> Milli(a) < Milli(b)

\* a != b on Python numbers
PyNe(a, b) ==
    CASE ~IsNumber(a) \/ ~IsNumber(b) -> TRUE
      [] a.k = "nan" \/ b.k = "nan" -> TRUE
      [] a.k = "inf" \/ b.k = "inf" -> ~(a.k = b.k /\ a.n = b.n)
      [] OTHER -> Milli(a) # Milli(b)

\* max(a, b) and min(a, b): the first argument is kept unless the second
\* is strictly greater (smaller)
PyMax(a, b) == IF PyLt(a, b) THEN b ELSE a
PyMin(a, b) == IF PyLt(b, a) THEN b ELSE a

\* the outcome of an expression: a value, or the exception it raises
Ok(v) == [err |-> "", val |-> v]
Raise(e) == [err |-> e, val |-> NoneV]

\* ----------------------------------------------------------------- strings

UpperChars == <<"A","B","C","D","E","F","G","H","I","J","K","L","M",
                "N","O","P","Q","R","S","T","U","V","W","X","Y","Z">>
LowerChars == <<"a","b","c","d","e","f","g","h","i","j","k","l","m",
                "n","o","p","q","r","s","t","u","v","w","x","y","z">>
DigitChars == <<"0","1","2","3","4","5","6","7","8","9">>

LowerChar(c) ==
    IF \E i \in 1..26 : UpperChars[i] = c
    THEN LowerChars[CHOOSE i \in 1..26 : UpperChars[i] = c]
    ELSE c

\* str.lower()
Lower(str) == [i \in 1..Len(str) |-> LowerChar(str[i])]

\* sub in str
Contains(sub, str) ==
    \E i \in 1..(Len(str) - Len(sub) + 1) : SubSeq(str, i, i + Len(sub) - 1) = sub

IsDigit(c) == \E i \in 1..10 : DigitChars[i] = c
DigitVal(c) == (CHOOSE i \in 1..10 : DigitChars[i] = c) - 1
AllDigits(str) == Len(str) > 0 /\ \A i \in 1..Len(str) : IsDigit(str[i])

RECURSIVE DigitsVal(_)
DigitsVal(str) ==
    IF str = <<>> THEN 0
    ELSE DigitsVal(SubSeq(str, 1, Len(str) - 1)) * 10 + DigitVal(str[Len(str)])

HasSign(str) == Len(str) > 0 /\ str[1] \in {"+", "-"}
Unsigned(str) == IF HasSign(str) THEN Tail(str) ELSE str
SignOf(str) == IF Len(str) > 0 /\ str[1] = "-" THEN -1 ELSE 1

\* the literals int() accepts: an optional sign and decimal digits
IsIntLiteral(str) == AllDigits(Unsigned(str))
IntLiteralVal(str) == SignOf(str) * DigitsVal(Unsigned(str))

\* the literals float() accepts: digits with at most one point, or a
\* spelling of infinity or NaN in any case
DotsOf(str) == {i \in 1..Len(str) : str[i] = "."}
IsDecimalLiteral(str) ==
    /\ Cardinality(DotsOf(str)) <= 1
    /\ Len(str) > Cardinality(DotsOf(str))
    /\ \A i \in 1..Len(str) : i \in DotsOf(str) \/ IsDigit(str[i])
DecimalMilli(str) ==
    IF DotsOf(str) = {} THEN DigitsVal(str) * 1000
    ELSE LET d == CHOOSE i \in DotsOf(str) : TRUE
             frac == SubSeq(SubSeq(str, d + 1, Len(str)) \o <<"0","0","0">>, 1, 3)
         IN DigitsVal(SubSeq(str, 1, d - 1)) * 1000 + DigitsVal(frac)
IsInfLiteral(str) ==
    Lower(str) \in {<<"i","n","f">>, <<"i","n","f","i","n","i","t","y">>}
IsNaNLiteral(str) == Lower(str) = <<"n","a","n">>

\* truncation towards zero
TruncDiv(a, b) == IF a >= 0 THEN a \div b ELSE -((-a) \div b)

\* int(v)
PyInt(v) ==
    CASE v.k = "int" -> Ok(v)
      [] v.k = "bool" -> Ok(IntV(v.n))
      [] v.k = "float" -> Ok(IntV(TruncDiv(v.n, 1000)))
      [] v.k = "inf" -> Raise("OverflowError")
      [] v.k = "nan" -> Raise("ValueError")
      [] v.k = "str" -> IF IsIntLiteral(v.s) THEN Ok(IntV(IntLiteralVal(v.s)))
                        ELSE Raise("ValueError")
      [] OTHER -> Raise("TypeError")

\* float(v)
PyFloat(v) ==
    CASE v.k \in {"int", "bool"} -> Ok(FloatV(v.n * 1000))
      [] v.k \in {"float", "inf", "nan"} -> Ok(v)
      [] v.k = "str" ->
            LET u == Unsigned(v.s) IN
            CASE IsDecimalLiteral(u) -> Ok(FloatV(SignOf(v.s) * DecimalMilli(u)))
              [] IsInfLiteral(u) -> Ok(InfV(SignOf(v.s)))
              [] IsNaNLiteral(u) -> Ok(NaNV)
              [] OTHER -> Raise("ValueError")
      [] OTHER -> Raise("TypeError")

\* round(v, ndigits) with unit = 1000 / 10^ndigits thousandths: an int is
\* returned as it is, a float goes to the nearest multiple, ties to even
RoundMilli(m, unit) ==
    LET q == m \div unit
        r == m - q * unit
    IN CASE 2 * r < unit -> q * unit
         [] 2 * r > unit -> (q + 1) * unit
         [] OTHER -> IF q % 2 = 0 THEN q * unit ELSE (q + 1) * unit
PyRound(v, unit) == IF v.k = "float" THEN FloatV(RoundMilli(v.n, unit)) ELSE v

\* ------------------------------------------------------------------ tables

s_unknown == <<"u","n","k","n","o","w","n">>
s_python == <<"p","y","t","h","o","n">>
s_java == <<"j","a","v","a">>
s_nodejs == <<"n","o","d","e","j","s">>
s_node == <<"n","o","d","e">>
s_react_native == <<"r","e","a","c","t","-","n","a","t","i","v","e">>
s_reactnative == <<"r","e","a","c","t","n","a","t","i","v","e">>
s_android == <<"a","n","d","r","o","i","d">>
s_ios == <<"i","o","s">>
s_feature == <<"f","e","a","t","u","r","e">>
s_develop == <<"d","e","v","e","l","o","p">>
s_development == <<"d","e","v","e","l","o","p","m","e","n","t">>
s_main == <<"m","a","i","n">>
s_master == <<"m","a","s","t","e","r">>
s_hotfix == <<"h","o","t","f","i","x">>
s_release == <<"r","e","l","e","a","s","e">>
s_prodrelease == <<"p","r","o","d","r","e","l","e","a","s","e">>
s_debug == <<"d","e","b","u","g">>
s_dev == <<"d","e","v">>
s_staging == <<"s","t","a","g","i","n","g">>

\* the predictor's FEATURE_COLUMNS
FEATURE_COLUMNS ==
    << "project_type", "repo_size_mb", "is_monorepo",
       "branch_type", "build_type", "environment",
       "files_changed", "lines_added", "lines_deleted", "source_files_pct",
       "deps_file_changed", "dependency_count", "test_files_changed",
       "stages_count", "has_build_stage", "has_unit_tests",
       "has_integration_tests", "has_e2e_tests", "has_deploy_stage",
       "has_docker_build", "uses_emulator", "parallel_stages",
       "has_artifact_publish",
       "is_first_build", "cache_available", "is_clean_build",
       "time_of_day_hour" >>

\* a dict as a set of <<key, value>> pairs
PROJECT_TYPES ==
    { <<s_python, 0>>, <<s_java, 1>>, <<s_nodejs, 2>>, <<s_node, 2>>,
      <<s_react_native, 3>>, <<s_reactnative, 3>>, <<s_android, 4>>,
      <<s_ios, 5>>, <<s_unknown, 0>> }

BRANCH_TYPES ==
    { <<s_feature, 0>>, <<s_develop, 1>>, <<s_development, 1>>,
      <<s_main, 2>>, <<s_master, 2>>, <<s_hotfix, 3>>, <<s_release, 4>> }

\* dict.get(key, default) on a table
DictGet(d, key, default) ==
    IF \E p \in d : p[1] = key THEN (CHOOSE p \in d : p[1] = key)[2] ELSE default

\* context.get(key, default): the context is a function on the keys present
Get(context, key, default) ==
    IF key \in DOMAIN context THEN context[key] ELSE default

\* context.get(camel, context.get(snake, default))
Get2(context, camel, snake, default) ==
    Get(context, camel, Get(context, snake, default))

\* ------------------------------------------------------ feature engineering

\* predict.py 109-110
project_type_of(context) ==
    LET project_type_str == Get2(context, "projectType", "project_type", StrV(s_unknown))
    IN IF ~IsInstanceStr(project_type_str) THEN Raise("AttributeError")
       ELSE Ok(IntV(DictGet(PROJECT_TYPES, Lower(project_type_str.s), 0)))

\* InferBranchType with the release rule tried before the hotfix rule
InferBranchType_ReleaseFirst(branch) ==
    IF ~IsInstanceStr(branch) THEN Raise("AttributeError")
    ELSE LET b == Lower(branch.s) IN
         Ok(IntV(IF Contains(s_feature, b) THEN 0
                 ELSE IF b \in {s_develop, s_development} THEN 1
                 ELSE IF b \in {s_main, s_master} THEN 2
                 ELSE IF Contains(s_release, b) THEN 4
                 ELSE IF Contains(s_hotfix, b) THEN 3
                 ELSE 0))

\* predict.py 123-135: the code inferred from the branch name
InferBranchType(branch) ==
    IF ~IsInstanceStr(branch) THEN Raise("AttributeError")
    ELSE LET b == Lower(branch.s) IN
         Ok(IntV(IF Contains(s_feature, b) THEN 0
                 ELSE IF b \in {s_develop, s_development} THEN 1
                 ELSE IF b \in {s_main, s_master} THEN 2
                 ELSE IF Contains(s_hotfix, b) THEN 3
                 ELSE IF Contains(s_release, b) THEN 4
                 ELSE 0))

\* branch_type_of with the branch name, when one is given, tried before the
\* explicit code
branch_type_of_NameFirst(context) ==
    LET branch == Get(context, "branch", StrV(s_develop))
        branch_type_val == Get2(context, "branchType", "branch_type", NoneV)
    IN IF "branch" \in DOMAIN context THEN InferBranchType(branch)
       ELSE IF IsInstanceInt(branch_type_val) THEN Ok(branch_type_val)
       ELSE IF Truthy(branch_type_val) /\ IsInstanceStr(branch_type_val)
            THEN Ok(IntV(DictGet(BRANCH_TYPES, Lower(branch_type_val.s), 0)))
       ELSE InferBranchType(branch)

\* predict.py 115-135
branch_type_of(context) ==
    LET branch == Get(context, "branch", StrV(s_develop))
        branch_type_val == Get2(context, "branchType", "branch_type", NoneV)
    IN IF IsInstanceInt(branch_type_val) THEN Ok(branch_type_val)
       ELSE IF Truthy(branch_type_val) /\ IsInstanceStr(branch_type_val)
            THEN Ok(IntV(DictGet(BRANCH_TYPES, Lower(branch_type_val.s), 0)))
       ELSE InferBranchType(branch)

\* predict.py 137-138
build_type_of(context) ==
    LET build_type == Get(context, "buildType", StrV(s_debug))
    IN IF ~IsInstanceStr(build_type) THEN Raise("AttributeError")
       ELSE Ok(IntV(IF Lower(build_type.s) \in {s_release, s_prodrelease} THEN 1 ELSE 0))

\* predict.py 140-146
environment_of(context) ==
    LET env == Get(context, "environment", StrV(s_development))
    IN IF ~IsInstanceStr(env) THEN Raise("AttributeError")
       ELSE Ok(IntV(IF Lower(env.s) \in {s_dev, s_development} THEN 0
                    ELSE IF Lower(env.s) = s_staging THEN 1
                    ELSE 2))

\* predict.py 176-179: the wall-clock hour stands in for an absent or null hour
time_of_day_hour_of(context, now_hour) ==
    LET hour == Get2(context, "timeOfDayHour", "time_of_day_hour", NoneV)
    IN PyInt(IF hour.k = "null" THEN IntV(now_hour) ELSE hour)

\* IntFeature with 0 for every absent field
IntFeature_ZeroDefault(context, camel, snake, default) ==
    PyInt(Get2(context, camel, snake, IntV(0)))

\* int(context.get(camel, context.get(snake, default)))
IntFeature(context, camel, snake, default) ==
    PyInt(Get2(context, camel, snake, IntV(default)))

\* float(context.get(camel, context.get(snake, default)))
FloatFeature(context, camel, snake, default) ==
    PyFloat(Get2(context, camel, snake, default))

\* the assignments of engineer_features, in the order the code makes them
FeatureSteps(context, now_hour) ==
    << [name |-> "project_type", r |-> project_type_of(context)],
       [name |-> "repo_size_mb", r |-> FloatFeature(context, "repoSizeMb", "repo_size_mb", IntV(100))],
       [name |-> "is_monorepo", r |-> IntFeature(context, "isMonorepo", "is_monorepo", 0)],
       [name |-> "branch_type", r |-> branch_type_of(context)],
       [name |-> "build_type", r |-> build_type_of(context)],
       [name |-> "environment", r |-> environment_of(context)],
       [name |-> "files_changed", r |-> IntFeature(context, "filesChanged", "files_changed", 5)],
       [name |-> "lines_added", r |-> IntFeature(context, "linesAdded", "lines_added", 100)],
       [name |-> "lines_deleted", r |-> IntFeature(context, "linesDeleted", "lines_deleted", 20)],
       [name |-> "source_files_pct", r |-> FloatFeature(context, "sourceFilesPct", "source_files_pct", FloatV(800))],
       [name |-> "deps_file_changed", r |-> IntFeature(context, "depsChanged", "deps_file_changed", 0)],
       [name |-> "dependency_count", r |-> IntFeature(context, "dependencyCount", "dependency_count", 50)],
       [name |-> "test_files_changed", r |-> IntFeature(context, "testFilesChanged", "test_files_changed", 0)],
       [name |-> "stages_count", r |-> IntFeature(context, "stagesCount", "stages_count", 3)],
       [name |-> "has_build_stage", r |-> IntFeature(context, "hasBuildStage", "has_build_stage", 1)],
       [name |-> "has_unit_tests", r |-> IntFeature(context, "hasUnitTests", "has_unit_tests", 1)],
       [name |-> "has_integration_tests", r |-> IntFeature(context, "hasIntegrationTests", "has_integration_tests", 0)],
       [name |-> "has_e2e_tests", r |-> IntFeature(context, "hasE2ETests", "has_e2e_tests", 0)],
       [name |-> "has_deploy_stage", r |-> IntFeature(context, "hasDeployStage", "has_deploy_stage", 0)],
       [name |-> "has_docker_build", r |-> IntFeature(context, "hasDockerBuild", "has_docker_build", 0)],
       [name |-> "uses_emulator", r |-> IntFeature(context, "usesEmulator", "uses_emulator", 0)],
       [name |-> "parallel_stages", r |-> IntFeature(context, "parallelStages", "parallel_stages", 0)],
       [name |-> "has_artifact_publish", r |-> IntFeature(context, "hasArtifactPublish", "has_artifact_publish", 0)],
       [name |-> "is_first_build", r |-> IntFeature(context, "isFirstBuild", "is_first_build", 0)],
       [name |-> "cache_available", r |-> IntFeature(context, "cacheAvailable", "cache_available", 1)],
       [name |-> "is_clean_build", r |-> IntFeature(context, "isCleanBuild", "is_clean_build", 0)],
       [name |-> "time_of_day_hour", r |-> time_of_day_hour_of(context, now_hour)] >>

\* engineer_features(context): the features dict in insertion order, or the
\* exception of the first assignment that raises
engineer_features(context, now_hour) ==
    LET steps == FeatureSteps(context, now_hour)
        bad == {i \in 1..Len(steps) : steps[i].r.err # ""}
    IN IF bad # {}
       THEN [err |-> steps[CHOOSE i \in bad : \A j \in bad : i <= j].r.err, features |-> <<>>]
       ELSE [err |-> "",
             features |-> [i \in 1..Len(steps) |-> [name |-> steps[i].name, val |-> steps[i].r.val]]]

\* features.get(name, default) on a features dict
FeatureGet(features, name, default) ==
    IF \E i \in 1..Len(features) : features[i].name = name
    THEN features[CHOOSE i \in 1..Len(features) : features[i].name = name].val
    ELSE default

\* --------------------------------------------------------------- prediction

\* predict.py 198: the feature vector, one entry per column of FEATURE_COLUMNS
AssembleX(features) ==
    [i \in 1..Len(FEATURE_COLUMNS) |->
        [name |-> FEATURE_COLUMNS[i], val |-> FeatureGet(features, FEATURE_COLUMNS[i], IntV(0))]]

\* ClampCpu with the arguments of min and max the other way round
ClampCpu_ArgsSwapped(p) == PyMax(PyMin(p, IntV(100)), IntV(10))

\* predict.py 204-206: the clamps, on float(prediction[i])
ClampCpu(p) == PyMax(IntV(10), PyMin(IntV(100), p))
ClampMemory(p) == PyMax(FloatV(500), p)
ClampTime(p) == PyMax(IntV(1), p)

NoResult ==
    [cpu |-> NoneV, memoryGb |-> NoneV, timeMinutes |-> NoneV, method |-> "",
     features_used |-> 0, confidence |-> "", features |-> <<>>]

\* predict.py 191-201: what predict_resources does with the file at model_path
model_calls(model_exists) == IF model_exists THEN <<"load", "predict">> ELSE <<>>

\* predict_resources that goes on to load the model whether or not the path exists
predict_resources_Unguarded(features, model_exists, prediction) ==
    IF prediction.raises THEN [err |-> "ModelError", result |-> NoResult]
    ELSE [err |-> "",
          result |-> [NoResult EXCEPT !.cpu = PyRound(ClampCpu(PyFloat(prediction.row[1]).val), 100),
                                      !.memoryGb = PyRound(ClampMemory(PyFloat(prediction.row[2]).val), 10),
                                      !.timeMinutes = PyRound(ClampTime(PyFloat(prediction.row[3]).val), 100),
                                      !.method = "ml_enhanced_prediction",
                                      !.features_used = Len(FEATURE_COLUMNS)]]

\* predict_resources(features, model_path): model_exists is os.path.exists,
\* prediction what the loaded model does on X (it raises, or returns a row
\* of three floats)
predict_resources(features, model_exists, prediction) ==
    IF ~model_exists THEN [err |-> "FileNotFoundError", result |-> NoResult]
    ELSE IF prediction.raises THEN [err |-> "ModelError", result |-> NoResult]
    ELSE LET cpu_pct == ClampCpu(PyFloat(prediction.row[1]).val)
             memory_gb == ClampMemory(PyFloat(prediction.row[2]).val)
             time_min == ClampTime(PyFloat(prediction.row[3]).val)
         IN [err |-> "",
             result |-> [NoResult EXCEPT !.cpu = PyRound(cpu_pct, 100),
                                         !.memoryGb = PyRound(memory_gb, 10),
                                         !.timeMinutes = PyRound(time_min, 100),
                                         !.method = "ml_enhanced_prediction",
                                         !.features_used = Len(FEATURE_COLUMNS)]]

\* predict.py 221-227
critical_features ==
    << <<"project_type", 0>>, <<"has_e2e_tests", 0>>, <<"uses_emulator", 0>>,
       <<"stages_count", 3>>, <<"is_first_build", 0>> >>

\* predict.py 229-232
provided_count(features) ==
    Cardinality({i \in 1..Len(critical_features) :
        PyNe(FeatureGet(features, critical_features[i][1], NoneV), IntV(critical_features[i][2]))})

\* get_confidence with the thresholds exclusive
get_confidence_Exclusive(features) ==
    IF provided_count(features) > 4 THEN "high"
    ELSE IF provided_count(features) > 2 THEN "medium"
    ELSE "low"

\* predict.py 217-240
get_confidence(features) ==
    IF provided_count(features) >= 4 THEN "high"
    ELSE IF provided_count(features) >= 2 THEN "medium"
    ELSE "low"

\* ------------------------------------------------- generator and trainer

\* generate_enhanced_dataset.py 577-588: the columns of training_features.csv
training_cols ==
    << "project_type", "repo_size_mb", "is_monorepo",
       "branch_type", "build_type", "environment",
       "files_changed", "lines_added", "lines_deleted", "source_files_pct",
       "deps_file_changed", "dependency_count", "test_files_changed",
       "stages_count", "has_build_stage", "has_unit_tests", "has_integration_tests",
       "has_e2e_tests", "has_deploy_stage", "has_docker_build", "uses_emulator",
       "parallel_stages", "has_artifact_publish",
       "is_first_build", "cache_available", "is_clean_build",
       "time_of_day_hour",
       "cpu_avg_pct", "memory_gb", "build_time_min" >>

\* generate_enhanced_dataset.py 568: generate_dataset(num_records=1000, ...)
NUM_RECORDS == 1000

\* the trainer's FEATURE_COLUMNS with is_monorepo and repo_size_mb exchanged
TRAIN_FEATURE_COLUMNS_Swapped ==
    << "project_type", "is_monorepo", "repo_size_mb",
       "branch_type", "build_type", "environment",
       "files_changed", "lines_added", "lines_deleted", "source_files_pct",
       "deps_file_changed", "dependency_count", "test_files_changed",
       "stages_count", "has_build_stage", "has_unit_tests",
       "has_integration_tests", "has_e2e_tests", "has_deploy_stage",
       "has_docker_build", "uses_emulator", "parallel_stages",
       "has_artifact_publish",
       "is_first_build", "cache_available", "is_clean_build",
       "time_of_day_hour" >>

\* train_model.py 36-75: the trainer's FEATURE_COLUMNS
TRAIN_FEATURE_COLUMNS ==
    << "project_type", "repo_size_mb", "is_monorepo",
       "branch_type", "build_type", "environment",
       "files_changed", "lines_added", "lines_deleted", "source_files_pct",
       "deps_file_changed", "dependency_count", "test_files_changed",
       "stages_count", "has_build_stage", "has_unit_tests",
       "has_integration_tests", "has_e2e_tests", "has_deploy_stage",
       "has_docker_build", "uses_emulator", "parallel_stages",
       "has_artifact_publish",
       "is_first_build", "cache_available", "is_clean_build",
       "time_of_day_hour" >>

\* train_model.py 78
TARGET_COLUMNS == << "cpu_avg_pct", "memory_gb", "build_time_min" >>

\* train_model.py 108: the least number of rows load_data trains on
MIN_TRAINING_ROWS == 50

Range(seq) == {seq[i] : i \in 1..Len(seq)}
\* [col for col in cols if col not in df.columns]
MissingFrom(cols, present) == SelectSeq(cols, LAMBDA c : c \notin Range(present))

\* a csv file: its header, its number of rows, how many of them have a
\* status of 'success' or 'SUCCESS' (read only when there is a status column),
\* and whether main() of the generator wrote it or it was supplied
NoFile == [exists |-> FALSE, columns |-> <<>>, rows |-> 0, success_rows |-> 0, origin |-> ""]
\* training_features.csv as main() of the generator writes it (590-592)
GeneratedFile ==
    [exists |-> TRUE, columns |-> training_cols, rows |-> NUM_RECORDS, success_rows |-> 0,
     origin |-> "generator"]

\* load_data that counts the rows before the status filter
load_data_Unfiltered(csv) ==
    IF \E i \in 1..Len(TRAIN_FEATURE_COLUMNS) : TRAIN_FEATURE_COLUMNS[i] \notin Range(csv.columns)
    THEN [err |-> "Missing feature columns",
          missing |-> MissingFrom(TRAIN_FEATURE_COLUMNS, csv.columns), X |-> <<>>, y |-> <<>>]
    ELSE IF \E i \in 1..Len(TARGET_COLUMNS) : TARGET_COLUMNS[i] \notin Range(csv.columns)
    THEN [err |-> "Missing target columns",
          missing |-> MissingFrom(TARGET_COLUMNS, csv.columns), X |-> <<>>, y |-> <<>>]
    ELSE IF csv.rows < MIN_TRAINING_ROWS
    THEN [err |-> "Not enough data to train", missing |-> <<>>, X |-> <<>>, y |-> <<>>]
    ELSE [err |-> "", missing |-> <<>>, X |-> TRAIN_FEATURE_COLUMNS, y |-> TARGET_COLUMNS]

\* train_model.py 102-106: the rows left by the filter on status
SuccessfulBuilds(csv) ==
    IF "status" \in Range(csv.columns) THEN csv.success_rows ELSE csv.rows
NoArtifact == [exists |-> FALSE, features |-> <<>>, targets |-> <<>>]

\* train_model.py 85-118: load_data on the csv at --data-path; the error
\* carries the list of names the message prints
load_data(csv) ==
    IF MissingFrom(TRAIN_FEATURE_COLUMNS, csv.columns) # <<>>
    THEN [err |-> "Missing feature columns",
          missing |-> MissingFrom(TRAIN_FEATURE_COLUMNS, csv.columns), X |-> <<>>, y |-> <<>>]
    ELSE IF MissingFrom(TARGET_COLUMNS, csv.columns) # <<>>
    THEN [err |-> "Missing target columns",
          missing |-> MissingFrom(TARGET_COLUMNS, csv.columns), X |-> <<>>, y |-> <<>>]
    ELSE IF SuccessfulBuilds(csv) < MIN_TRAINING_ROWS
    THEN [err |-> "Not enough data to train", missing |-> <<>>, X |-> <<>>, y |-> <<>>]
    ELSE [err |-> "", missing |-> <<>>, X |-> TRAIN_FEATURE_COLUMNS, y |-> TARGET_COLUMNS]

NoReport == [err |-> "", missing |-> <<>>]

\* ---------------------------------------------------------------- generator
\* generate_enhanced_dataset.py; gigabytes, percents, minutes and factors are
\* in thousandths, a draw of random() is in thousandths too (0..999)

\* generate_enhanced_dataset.py 30-37
GEN_PROJECT_TYPES ==
    << "python", "java", "nodejs", "react-native", "android", "ios" >>

Stage(memory_gb, cpu_pct, time_min) ==
    [memory_gb |-> memory_gb, cpu_pct |-> cpu_pct, time_min |-> time_min]

\* generate_enhanced_dataset.py 51-97
RESOURCE_PROFILES ==
    "python" :>
        [base |-> Stage(<<500, 2000>>, <<15000, 40000>>, <<2000, 8000>>),
         unit_tests |-> Stage(<<1000, 3000>>, <<30000, 60000>>, <<3000, 12000>>),
         integration |-> Stage(<<2000, 5000>>, <<40000, 75000>>, <<8000, 25000>>),
         deps_no_cache |-> Stage(<<2000, 4000>>, <<25000, 50000>>, <<5000, 30000>>),
         docker |-> Stage(<<3000, 6000>>, <<50000, 80000>>, <<10000, 30000>>)]
    @@ "java" :>
        [base |-> Stage(<<2000, 4000>>, <<40000, 70000>>, <<5000, 15000>>),
         unit_tests |-> Stage(<<3000, 6000>>, <<50000, 80000>>, <<10000, 25000>>),
         integration |-> Stage(<<4000, 8000>>, <<60000, 90000>>, <<15000, 45000>>),
         deps_no_cache |-> Stage(<<3000, 5000>>, <<45000, 65000>>, <<8000, 25000>>),
         docker |-> Stage(<<4000, 8000>>, <<55000, 85000>>, <<15000, 35000>>)]
    @@ "nodejs" :>
        [base |-> Stage(<<1000, 3000>>, <<20000, 50000>>, <<1000, 5000>>),
         unit_tests |-> Stage(<<1500, 4000>>, <<30000, 65000>>, <<3000, 10000>>),
         integration |-> Stage(<<2000, 5000>>, <<40000, 75000>>, <<5000, 20000>>),
         deps_no_cache |-> Stage(<<2000, 4000>>, <<30000, 55000>>, <<3000, 25000>>),
         docker |-> Stage(<<2000, 5000>>, <<45000, 75000>>, <<5000, 20000>>),
         e2e |-> Stage(<<4000, 8000>>, <<60000, 85000>>, <<15000, 40000>>)]
    @@ "react-native" :>
        [base |-> Stage(<<4000, 8000>>, <<50000, 80000>>, <<10000, 25000>>),
         unit_tests |-> Stage(<<5000, 10000>>, <<55000, 85000>>, <<15000, 35000>>),
         integration |-> Stage(<<6000, 12000>>, <<60000, 90000>>, <<20000, 50000>>),
         e2e |-> Stage(<<8000, 16000>>, <<70000, 95000>>, <<30000, 90000>>),
         emulator |-> Stage(<<10000, 18000>>, <<75000, 95000>>, <<40000, 100000>>),
         release |-> Stage(<<8000, 14000>>, <<65000, 90000>>, <<25000, 50000>>)]
    @@ "android" :>
        [base |-> Stage(<<4000, 8000>>, <<55000, 85000>>, <<8000, 20000>>),
         unit_tests |-> Stage(<<5000, 10000>>, <<60000, 88000>>, <<12000, 30000>>),
         integration |-> Stage(<<6000, 12000>>, <<65000, 92000>>, <<18000, 45000>>),
         e2e |-> Stage(<<10000, 20000>>, <<75000, 98000>>, <<35000, 90000>>),
         emulator |-> Stage(<<12000, 24000>>, <<80000, 98000>>, <<45000, 120000>>),
         release |-> Stage(<<8000, 16000>>, <<70000, 95000>>, <<20000, 40000>>)]
    @@ "ios" :>
        [base |-> Stage(<<4000, 10000>>, <<50000, 80000>>, <<10000, 30000>>),
         unit_tests |-> Stage(<<5000, 12000>>, <<55000, 85000>>, <<15000, 40000>>),
         integration |-> Stage(<<6000, 14000>>, <<60000, 90000>>, <<20000, 55000>>),
         e2e |-> Stage(<<8000, 18000>>, <<70000, 95000>>, <<30000, 80000>>),
         release |-> Stage(<<8000, 16000>>, <<65000, 90000>>, <<20000, 45000>>)]

Max(a, b) == IF b > a THEN b ELSE a
Min(a, b) == IF b < a THEN b ELSE a
\* the product of two numbers in thousandths, a * f / 1000 rounded down
Times(a, f) == (a \div 1000) * f + ((a % 1000) * f) \div 1000
\* random.uniform(a, b) = a + (b - a) * random()
Uniform(a, b, u) == a + Times(b - a, u)
\* random.uniform(a, b) for a factor, in millionths
Factor(a, b, u) == a * 1000 + (b - a) * u
\* v * f for v in thousandths and a factor f in millionths, rounded down to
\* a thousandth (in parts, so that no product leaves 32 bits)
Scale(v, f) ==
    LET vh == v \div 1000
        vl == v % 1000
        fh == f \div 1000
        fl == f % 1000
        mid == vh * fl + vl * fh
    IN vh * fh + mid \div 1000 + ((mid % 1000) * 1000 + vl * fl) \div 1000000

\* pipeline_additions that takes the docker addition whatever the flag says
pipeline_additions_DockerAlways(profile, pipeline_config) ==
    (IF pipeline_config.has_unit_tests # 0 THEN <<"unit_tests">> ELSE <<>>)
    \o (IF pipeline_config.has_integration_tests # 0 THEN <<"integration">> ELSE <<>>)
    \o (IF pipeline_config.has_e2e_tests # 0 /\ "e2e" \in DOMAIN profile
        THEN <<"e2e">> ELSE <<>>)
    \o (IF pipeline_config.uses_emulator # 0 /\ "emulator" \in DOMAIN profile
        THEN <<"emulator">> ELSE <<>>)
    \o (IF "docker" \in DOMAIN profile THEN <<"docker">> ELSE <<>>)

\* generate_enhanced_dataset.py 184-195
pipeline_additions(profile, pipeline_config) ==
    (IF pipeline_config.has_unit_tests # 0 THEN <<"unit_tests">> ELSE <<>>)
    \o (IF pipeline_config.has_integration_tests # 0 THEN <<"integration">> ELSE <<>>)
    \o (IF pipeline_config.has_e2e_tests # 0 /\ "e2e" \in DOMAIN profile
        THEN <<"e2e">> ELSE <<>>)
    \o (IF pipeline_config.uses_emulator # 0 /\ "emulator" \in DOMAIN profile
        THEN <<"emulator">> ELSE <<>>)
    \o (IF pipeline_config.has_docker_build # 0 /\ "docker" \in DOMAIN profile
        THEN <<"docker">> ELSE <<>>)

\* the interval of the addition put in place of the running one
Widen_Replace(interval, addition) == addition

\* generate_enhanced_dataset.py 201-204: memory and cpu
Widen(interval, addition) ==
    << Max(interval[1], addition[1]), Max(interval[2], addition[2]) >>

\* the time interval widened like memory and cpu, by max at both ends
WidenTime_Max(time, addition) ==
    << Max(time[1], addition[1]), Max(time[2], addition[2]) >>

\* the time interval with its lower bound raised and its upper bound kept
WidenTime_KeepUpper(time, addition) ==
    << Max(time[1], addition[1]), time[2] >>

\* generate_enhanced_dataset.py 205-206: stages add time
WidenTime(time, addition) ==
    << Max(time[1], addition[1]), time[2] + addition[2] \div 2 >>

\* generate_enhanced_dataset.py 198-206: one turn of the loop
ApplyAddition(profile, intervals, addition) ==
    IF addition \in DOMAIN profile
    THEN [memory |-> Widen(intervals.memory, profile[addition].memory_gb),
          cpu |-> Widen(intervals.cpu, profile[addition].cpu_pct),
          time |-> WidenTime(intervals.time, profile[addition].time_min)]
    ELSE intervals

\* generate_enhanced_dataset.py 198: for addition in pipeline_additions
RECURSIVE ApplyAdditions(_, _, _)
ApplyAdditions(profile, intervals, additions) ==
    IF additions = <<>> THEN intervals
    ELSE ApplyAdditions(profile, ApplyAddition(profile, intervals, Head(additions)),
                        Tail(additions))

\* generate_enhanced_dataset.py 179-181
BaseIntervals(profile) ==
    [memory |-> profile.base.memory_gb, cpu |-> profile.base.cpu_pct,
     time |-> profile.base.time_min]

\* generate_enhanced_dataset.py 176-206: the intervals that 209-211 sample
SamplingIntervals(project_type_name, pipeline_config) ==
    LET profile == RESOURCE_PROFILES[project_type_name]
    IN ApplyAdditions(profile, BaseIntervals(profile),
                      pipeline_additions(profile, pipeline_config))

VARIABLES
    rng,             \* the two seeded generators (22-23): their streams and how far each is
    gen_pc,          \* where the generator is
    kaggle_source,   \* the kaggle_path given to generate_dataset and the file there
    kaggle_patterns, \* what extract_pipeline_patterns returned
    pipeline_call,   \* the last call of generate_pipeline_config: arguments, draws, config
    call_args,       \* the arguments of the call of calculate_resources
    record,          \* the record being generated, then the last one generated
    record_count,    \* the records generated so far
    calc,            \* the frame of the last call of calculate_resources
    prev_calc,       \* the frame of the call before it
    status_draw      \* the last call of np.random.choice for a status

gen ==
    <<rng, gen_pc, kaggle_source, kaggle_patterns, pipeline_call, call_args, record,
      record_count, calc, prev_calc, status_draw>>

\* the k-th coming draw of a generator whose stream is the sequence repeated
StreamAt(stream, pos, k) == stream[((pos + k - 1) % Len(stream)) + 1]
\* the coming draws of random.random(); no step of the generator takes more than 40
RandomDraws(r) == [k \in 1..40 |-> StreamAt(r.random, r.pos, k)]
\* the k-th coming draw of np.random
NumpyDraw(r, k) == StreamAt(r.np, r.np_pos, k)

\* SamplePoint that takes its cpu draw from numpy's generator
SamplePoint_NumpyCpu(intervals, d) ==
    [memory_val |-> Uniform(intervals.memory[1], intervals.memory[2], d[1]),
     cpu_val |-> Uniform(intervals.cpu[1], intervals.cpu[2], NumpyDraw(rng, 1)),
     time_val |-> Uniform(intervals.time[1], intervals.time[2], d[3]),
     n |-> 3]

\* the frame of calculate_resources past line 211: the three values and the
\* number n of draws taken so far; d is the sequence of draws of random()
\* that the call receives

\* generate_enhanced_dataset.py 209-211
SamplePoint(intervals, d) ==
    [memory_val |-> Uniform(intervals.memory[1], intervals.memory[2], d[1]),
     cpu_val |-> Uniform(intervals.cpu[1], intervals.cpu[2], d[2]),
     time_val |-> Uniform(intervals.time[1], intervals.time[2], d[3]),
     n |-> 3]

\* the no-cache modifier with the time of the dependency download put in
\* place of the running time
NoCacheModifier_Replace(profile, cache_available, f, d) ==
    IF cache_available # 0 THEN f
    ELSE LET g == IF "deps_no_cache" \in DOMAIN profile
                  THEN [f EXCEPT !.time_val =
                                    Uniform(profile.deps_no_cache.time_min[1],
                                            profile.deps_no_cache.time_min[2], d[f.n + 1]),
                                 !.n = f.n + 1]
                  ELSE f
         IN [g EXCEPT !.time_val = Scale(g.time_val, Factor(1500, 2500, d[g.n + 1])),
                      !.n = g.n + 1]

\* generate_enhanced_dataset.py 214-218
NoCacheModifier(profile, cache_available, f, d) ==
    IF cache_available # 0 THEN f
    ELSE LET g == IF "deps_no_cache" \in DOMAIN profile
                  THEN [f EXCEPT !.time_val =
                                    Max(f.time_val,
                                        Uniform(profile.deps_no_cache.time_min[1],
                                                profile.deps_no_cache.time_min[2], d[f.n + 1])),
                                 !.n = f.n + 1]
                  ELSE f
         IN [g EXCEPT !.time_val = Scale(g.time_val, Factor(1500, 2500, d[g.n + 1])),
                      !.n = g.n + 1]

\* generate_enhanced_dataset.py 221-223
FirstBuildModifier(is_first_build, f, d) ==
    IF is_first_build = 0 THEN f
    ELSE [f EXCEPT !.time_val = Scale(f.time_val, Factor(1300, 2000, d[f.n + 1])),
                   !.memory_val = Scale(f.memory_val, Factor(1100, 1300, d[f.n + 2])),
                   !.n = f.n + 2]

\* the clean build modifier with cpu * 1.1 left above 100
CleanBuildModifier_Uncapped(is_clean_build, f, d) ==
    IF is_clean_build = 0 THEN f
    ELSE [f EXCEPT !.time_val = Scale(f.time_val, Factor(1500, 2500, d[f.n + 1])),
                   !.memory_val = Scale(f.memory_val, Factor(1100, 1200, d[f.n + 2])),
                   !.cpu_val = Scale(f.cpu_val, 1100000),
                   !.n = f.n + 2]

\* generate_enhanced_dataset.py 226-229
CleanBuildModifier(is_clean_build, f, d) ==
    IF is_clean_build = 0 THEN f
    ELSE [f EXCEPT !.time_val = Scale(f.time_val, Factor(1500, 2500, d[f.n + 1])),
                   !.memory_val = Scale(f.memory_val, Factor(1100, 1200, d[f.n + 2])),
                   !.cpu_val = Min(100000, Scale(f.cpu_val, 1100000)),
                   !.n = f.n + 2]

\* generate_enhanced_dataset.py 232-234
MonorepoModifier(is_monorepo, f, d) ==
    IF is_monorepo = 0 THEN f
    ELSE [f EXCEPT !.time_val = Scale(f.time_val, Factor(1200, 1800, d[f.n + 1])),
                   !.memory_val = Scale(f.memory_val, Factor(1100, 1400, d[f.n + 2])),
                   !.n = f.n + 2]

\* the release modifier with the multipliers before the floor
ReleaseModifier_FloorLast(profile, is_release, f, d) ==
    IF is_release = 0 THEN f
    ELSE LET g == [f EXCEPT !.time_val = Scale(f.time_val, Factor(1300, 1600, d[f.n + 1])),
                            !.cpu_val = Min(100000, Scale(f.cpu_val, 1150000)),
                            !.n = f.n + 1]
         IN IF "release" \in DOMAIN profile
            THEN [g EXCEPT !.memory_val =
                              Max(g.memory_val,
                                  Uniform(profile.release.memory_gb[1],
                                          profile.release.memory_gb[2], d[g.n + 1])),
                           !.cpu_val =
                              Max(g.cpu_val,
                                  Uniform(profile.release.cpu_pct[1],
                                          profile.release.cpu_pct[2], d[g.n + 2])),
                           !.n = g.n + 2]
            ELSE g

\* generate_enhanced_dataset.py 237-243
ReleaseModifier(profile, is_release, f, d) ==
    IF is_release = 0 THEN f
    ELSE LET g == IF "release" \in DOMAIN profile
                  THEN [f EXCEPT !.memory_val =
                                    Max(f.memory_val,
                                        Uniform(profile.release.memory_gb[1],
                                                profile.release.memory_gb[2], d[f.n + 1])),
                                 !.cpu_val =
                                    Max(f.cpu_val,
                                        Uniform(profile.release.cpu_pct[1],
                                                profile.release.cpu_pct[2], d[f.n + 2])),
                                 !.n = f.n + 2]
                  ELSE f
         IN [g EXCEPT !.time_val = Scale(g.time_val, Factor(1300, 1600, d[g.n + 1])),
                      !.cpu_val = Min(100000, Scale(g.cpu_val, 1150000)),
                      !.n = g.n + 1]

\* generate_enhanced_dataset.py 214-234: the modifiers before the release one
EarlierModifiers(profile, args, f, d) ==
    MonorepoModifier(args.is_monorepo,
        CleanBuildModifier(args.is_clean_build,
            FirstBuildModifier(args.is_first_build,
                NoCacheModifier(profile, args.cache_available, f, d), d), d), d)

\* generate_enhanced_dataset.py 245-249
RoundedResources(f) ==
    [memory_gb |-> RoundMilli(f.memory_val, 10),
     cpu_avg_pct |-> RoundMilli(f.cpu_val, 100),
     build_time_min |-> RoundMilli(f.time_val, 100)]

\* generate_enhanced_dataset.py 173-249: calculate_resources on its seven
\* arguments and the draws d; besides the returned dict the frame keeps the
\* intervals, the sampled point and the values the release modifier found
calculate_resources(args, d) ==
    LET profile == RESOURCE_PROFILES[args.project_type_name]
        intervals == SamplingIntervals(args.project_type_name, args.pipeline_config)
        sampled == SamplePoint(intervals, d)
        before_release == EarlierModifiers(profile, args, sampled, d)
        final == ReleaseModifier(profile, args.is_release, before_release, d)
    IN [args |-> args,
        additions |-> pipeline_additions(profile, args.pipeline_config),
        intervals |-> intervals,
        sampled |-> sampled,
        before_release |-> before_release,
        final |-> final,
        draws |-> SubSeq(d, 1, final.n),
        result |-> RoundedResources(final)]

\* generate_enhanced_dataset.py 256-299: configs, in thousandths
PIPELINE_PROBABILITIES ==
    "python" :> [has_unit_tests |-> 850, has_integration_tests |-> 450,
                 has_e2e_tests |-> 100, has_docker_build |-> 350, uses_emulator |-> 0]
    @@ "java" :> [has_unit_tests |-> 900, has_integration_tests |-> 550,
                  has_e2e_tests |-> 150, has_docker_build |-> 400, uses_emulator |-> 0]
    @@ "nodejs" :> [has_unit_tests |-> 800, has_integration_tests |-> 400,
                    has_e2e_tests |-> 250, has_docker_build |-> 300, uses_emulator |-> 0]
    @@ "react-native" :> [has_unit_tests |-> 750, has_integration_tests |-> 350,
                          has_e2e_tests |-> 450, has_docker_build |-> 150,
                          uses_emulator |-> 550]
    @@ "android" :> [has_unit_tests |-> 850, has_integration_tests |-> 450,
                     has_e2e_tests |-> 500, has_docker_build |-> 100, uses_emulator |-> 600]
    @@ "ios" :> [has_unit_tests |-> 800, has_integration_tests |-> 400,
                 has_e2e_tests |-> 400, has_docker_build |-> 0, uses_emulator |-> 500]

\* 1 if random.random() < p else 0
Bernoulli(u, p) == IF u < p THEN 1 ELSE 0
\* random.choice(seq)
RandomChoice(seq, u) == seq[(u * Len(seq)) \div 1000 + 1]
\* random.randint(a, b)
RandInt(a, b, u) == a + (u * (b - a + 1)) \div 1000
\* generate_enhanced_dataset.py 304 and 308-310: min(1, p * release_multiplier)
Scaled(p, is_release) == Min(1000, Times(p, IF is_release THEN 1300 ELSE 1000))

\* generate_enhanced_dataset.py 252-326: the config dict and the number n of
\* draws taken; the deploy stage draws only when the record is not a release
generate_pipeline_config(project_type_name, is_release, d) ==
    LET proj_config == PIPELINE_PROBABILITIES[project_type_name]
        k == IF is_release THEN 3 ELSE 4
        has_unit_tests == Bernoulli(d[1], Scaled(proj_config.has_unit_tests, is_release))
        has_integration_tests ==
            Bernoulli(d[2], Scaled(proj_config.has_integration_tests, is_release))
        has_e2e_tests == Bernoulli(d[3], Scaled(proj_config.has_e2e_tests, is_release))
        has_deploy_stage == IF is_release THEN 1 ELSE Bernoulli(d[4], 300)
    IN [config |->
            [has_build_stage |-> 1,
             has_unit_tests |-> has_unit_tests,
             has_integration_tests |-> has_integration_tests,
             has_e2e_tests |-> has_e2e_tests,
             has_deploy_stage |-> has_deploy_stage,
             has_docker_build |-> Bernoulli(d[k + 1], proj_config.has_docker_build),
             uses_emulator |-> Bernoulli(d[k + 2], proj_config.uses_emulator),
             parallel_stages |-> IF is_release THEN RandomChoice(<<1, 1, 2, 2, 3>>, d[k + 3])
                                 ELSE RandomChoice(<<1, 1, 1, 2>>, d[k + 3]),
             stages_count |-> 1 + has_unit_tests + has_integration_tests
                              + has_e2e_tests + has_deploy_stage],
        n |-> k + 3]

\* generate_enhanced_dataset.py 100-107
GIT_METRICS ==
    "python" :> [files |-> <<1, 40>>, lines_add |-> <<5, 800>>, deps |-> 50]
    @@ "java" :> [files |-> <<1, 60>>, lines_add |-> <<10, 1200>>, deps |-> 80]
    @@ "nodejs" :> [files |-> <<1, 50>>, lines_add |-> <<5, 1000>>, deps |-> 150]
    @@ "react-native" :> [files |-> <<1, 80>>, lines_add |-> <<10, 1500>>, deps |-> 200]
    @@ "android" :> [files |-> <<1, 100>>, lines_add |-> <<10, 2000>>, deps |-> 100]
    @@ "ios" :> [files |-> <<1, 60>>, lines_add |-> <<10, 1200>>, deps |-> 60]

\* generate_enhanced_dataset.py 109-116, in thousandths of a megabyte
REPO_SIZES ==
    "python" :> <<10000, 500000>> @@ "java" :> <<50000, 2000000>>
    @@ "nodejs" :> <<10000, 800000>> @@ "react-native" :> <<100000, 3000000>>
    @@ "android" :> <<100000, 5000000>> @@ "ios" :> <<100000, 3000000>>

\* generate_enhanced_dataset.py 329-369
generate_git_metrics(project_type_name, is_small_change, has_tests, d) ==
    LET metrics == GIT_METRICS[project_type_name]
        files == IF is_small_change THEN RandInt(1, 5, d[1])
                 ELSE RandInt(metrics.files[1], metrics.files[2], d[1])
        lines_add == IF is_small_change THEN RandInt(5, 100, d[2])
                     ELSE RandInt(metrics.lines_add[1], metrics.lines_add[2], d[2])
        counts_tests == has_tests /\ files > 1
    IN [metrics |->
            [files_changed |-> files,
             lines_added |-> lines_add,
             lines_deleted |-> (lines_add * Factor(100, 500, d[3])) \div 1000000,
             source_files_pct |-> RoundMilli(Uniform(500, 950, d[4]), 10),
             deps_file_changed |-> Bernoulli(d[5], 200),
             dependency_count |-> (metrics.deps * Factor(700, 1300, d[6])) \div 1000000,
             test_files_changed |->
                IF counts_tests THEN Max(0, (files * Factor(150, 450, d[7])) \div 1000000)
                ELSE 0],
        n |-> IF counts_tests THEN 7 ELSE 6]

\* np.random.choice(len(weights), p=weights / total) on a draw u of numpy's
\* generator: the first index whose cumulative weight is above u
RECURSIVE SumTo(_, _)
SumTo(weights, i) == IF i = 0 THEN 0 ELSE weights[i] + SumTo(weights, i - 1)
NumpyChoice(weights, total, u) ==
    CHOOSE i \in 1..Len(weights) :
        /\ SumTo(weights, i) * 1000 > u * total
        /\ \A j \in 1..(i - 1) : SumTo(weights, j) * 1000 <= u * total

\* generate_enhanced_dataset.py 39, 380, 385: the weights, in hundredths
PROJECT_TYPE_WEIGHTS == <<25, 20, 20, 15, 12, 8>>
BRANCH_TYPE_WEIGHTS == <<35, 20, 25, 10, 10>>
ENVIRONMENT_WEIGHTS == <<50, 30, 20>>
\* generate_enhanced_dataset.py 451-455
HOUR_WEIGHTS ==
    <<1, 1, 1, 1, 2, 2, 3, 5, 8, 10, 10, 10, 8, 10, 10, 8, 5, 3, 2, 1, 1, 1, 1, 1>>

\* generate_enhanced_dataset.py 30-37: the names as they are spelled there
GEN_PROJECT_TYPE_CHARS ==
    << <<"p","y","t","h","o","n">>,
       <<"j","a","v","a">>,
       <<"n","o","d","e","j","s">>,
       <<"r","e","a","c","t","-","n","a","t","i","v","e">>,
       <<"a","n","d","r","o","i","d">>,
       <<"i","o","s">> >>

\* BRANCH_TYPE_MAP with main at code 1 and develop at code 2
BRANCH_TYPE_MAP_MainFirst == << "feature", "main", "develop", "hotfix", "release" >>

\* generate_enhanced_dataset.py 41-47, from code 0
BRANCH_TYPE_MAP == << "feature", "develop", "main", "hotfix", "release" >>

\* generate_enhanced_dataset.py 158-159
suffixes ==
    << <<"a","u","t","h">>,
       <<"l","o","g","i","n">>,
       <<"a","p","i">>,
       <<"u","i">>,
       <<"d","b">>,
       <<"t","e","s","t">>,
       <<"f","i","x">>,
       <<"p","e","r","f">>,
       <<"m","o","b","i","l","e">>,
       <<"c","a","c","h","e">>,
       <<"a","n","a","l","y","t","i","c","s">>,
       <<"s","e","a","r","c","h">>,
       <<"p","a","y","m","e","n","t">> >>
\* generate_enhanced_dataset.py 168
hotfix_words == << <<"b","u","g">>, <<"f","i","x">>, <<"u","r","g","e","n","t">>, <<"p","a","t","c","h">> >>

\* str(n) for n in 0..99, as an f-string formats it
FormatInt(n) ==
    IF n < 10 THEN <<DigitChars[n + 1]>>
    ELSE <<DigitChars[(n \div 10) + 1], DigitChars[(n % 10) + 1]>>

\* generate_enhanced_dataset.py 155-170: the name, a string of characters,
\* from the draws d of random
generate_branch_name(branch_type_idx, d) ==
    LET branch_type == BRANCH_TYPE_MAP[branch_type_idx + 1]
    IN CASE branch_type = "feature" ->
                <<"f","e","a","t","u","r","e","/">> \o RandomChoice(suffixes, d[1])
         [] branch_type = "develop" -> <<"d","e","v","e","l","o","p">>
         [] branch_type = "main" ->
                RandomChoice(<< <<"m","a","i","n">>, <<"m","a","s","t","e","r">> >>, d[1])
         [] branch_type = "hotfix" ->
                <<"h","o","t","f","i","x","/">> \o RandomChoice(hotfix_words, d[1])
         [] branch_type = "release" ->
                <<"r","e","l","e","a","s","e","/","v">> \o FormatInt(RandInt(1, 5, d[1]))
                \o <<".">> \o FormatInt(RandInt(0, 9, d[2]))
                \o <<".">> \o FormatInt(RandInt(0, 20, d[3]))

\* generate_enhanced_dataset.py 155-170: the draws generate_branch_name takes
BranchNameDraws(branch_type_idx) ==
    CASE branch_type_idx = 1 -> 0
      [] branch_type_idx = 4 -> 3
      [] OTHER -> 1

\* cache_available drawn whether or not the build is the first one
cache_state_Independent(d) ==
    [is_first_build |-> Bernoulli(d[1], 80), cache_available |-> Bernoulli(d[2], 850),
     n |-> 2]

\* generate_enhanced_dataset.py 413-414
cache_state(d) ==
    LET is_first_build == Bernoulli(d[1], 80)
    IN IF is_first_build # 0
       THEN [is_first_build |-> 1, cache_available |-> 0, n |-> 1]
       ELSE [is_first_build |-> 0, cache_available |-> Bernoulli(d[2], 850), n |-> 2]

\* generate_enhanced_dataset.py 394-400
monorepo_rate(repo_size) ==
    IF repo_size > 1000000 THEN 250 ELSE IF repo_size > 500000 THEN 150 ELSE 50

\* the draws d from the k-th on
Rest(d, k) == SubSeq(d, k + 1, Len(d))

\* generate_enhanced_dataset.py 376-437: a record up to the call of
\* calculate_resources; np1..np3 are the draws of numpy's generator, d those
\* of random, n the number of them taken
record_context(record_id, np1, np2, np3, d) ==
    LET project_type_idx == NumpyChoice(PROJECT_TYPE_WEIGHTS, 100, np1) - 1
        project_type_name == GEN_PROJECT_TYPES[project_type_idx + 1]
        branch_type_idx == NumpyChoice(BRANCH_TYPE_WEIGHTS, 100, np2) - 1
        n0 == BranchNameDraws(branch_type_idx)
        is_release == branch_type_idx = 4 \/ branch_type_idx = 2
        env_idx == NumpyChoice(ENVIRONMENT_WEIGHTS, 100, np3) - 1
        build_type == IF is_release THEN 1 ELSE Bernoulli(d[n0 + 1], 150)
        n1 == IF is_release THEN n0 ELSE n0 + 1
        repo_size == Uniform(REPO_SIZES[project_type_name][1],
                             REPO_SIZES[project_type_name][2], d[n1 + 1])
        is_monorepo == Bernoulli(d[n1 + 2], monorepo_rate(repo_size))
        n3 == n1 + 2
        pipeline == generate_pipeline_config(project_type_name, is_release, Rest(d, n3))
        pipeline_draws == SubSeq(d, n3 + 1, n3 + pipeline.n)
        n4 == n3 + pipeline.n
        publishes == build_type = 1 \/ pipeline.config.has_deploy_stage # 0
        has_artifact_publish ==
            IF build_type = 1 THEN Bernoulli(d[n4 + 1], 750)
            ELSE IF pipeline.config.has_deploy_stage # 0 THEN Bernoulli(d[n4 + 1], 400)
            ELSE 0
        n5 == IF publishes THEN n4 + 1 ELSE n4
        cache == cache_state(Rest(d, n5))
        n6 == n5 + cache.n
        is_clean_build == Bernoulli(d[n6 + 1], IF build_type = 1 THEN 250 ELSE 80)
        is_small_change == d[n6 + 2] < 350
        n8 == n6 + 2
        has_tests == pipeline.config.has_unit_tests # 0
                     \/ pipeline.config.has_integration_tests # 0
        git == generate_git_metrics(project_type_name, is_small_change, has_tests,
                                    Rest(d, n8))
    IN [fields |->
            [build_id |-> record_id,
             project_type |-> project_type_idx,
             project_type_name |-> project_type_name,
             repo_size_mb |-> RoundMilli(repo_size, 100),
             is_monorepo |-> is_monorepo,
             branch |-> generate_branch_name(branch_type_idx, d),
             branch_type |-> branch_type_idx,
             build_type |-> build_type,
             environment |-> env_idx,
             has_artifact_publish |-> has_artifact_publish,
             is_first_build |-> cache.is_first_build,
             cache_available |-> cache.cache_available,
             is_clean_build |-> is_clean_build]
            @@ git.metrics @@ pipeline.config,
        pipeline_call |->
            [project_type_name |-> project_type_name, is_release |-> is_release,
             draws |-> pipeline_draws, config |-> pipeline.config],
        args |->
            [project_type_name |-> project_type_name,
             pipeline_config |-> pipeline.config,
             cache_available |-> cache.cache_available,
             is_first_build |-> cache.is_first_build,
             is_release |-> IF build_type = 1 THEN 1 ELSE 0,
             is_clean_build |-> is_clean_build,
             is_monorepo |-> is_monorepo],
        n |-> n8 + git.n]

\* generate_enhanced_dataset.py 123-148: what generate_dataset has of the
\* Kaggle file; status_rates is value_counts(normalize=True) of its status
\* column, in the order of the dict, rates in thousandths
NoPatterns == [loaded |-> FALSE, status_rates |-> <<>>]
\* generate_enhanced_dataset.py 511-512
load_patterns(source) ==
    IF source.path /\ source.exists
    THEN [loaded |-> TRUE, status_rates |-> source.status_rates]
    ELSE NoPatterns

\* dict.get(s, 0.25) on status_rates
RateOf(status_rates, s) ==
    IF \E i \in 1..Len(status_rates) : status_rates[i].status = s
    THEN status_rates[CHOOSE i \in 1..Len(status_rates) : status_rates[i].status = s].rate
    ELSE 250

\* generate_enhanced_dataset.py 440-447: the values and the probabilities
\* handed to np.random.choice, which raises ValueError unless they have the
\* same size and the probabilities sum to 1, and the status drawn on u
draw_status(patterns, u) ==
    LET a == IF patterns.loaded
             THEN [i \in 1..Len(patterns.status_rates) |->
                        patterns.status_rates[i].status]
             ELSE <<"success", "failed">>
        p == IF patterns.loaded
             THEN [i \in 1..4 |->
                        RateOf(patterns.status_rates,
                               <<"success", "failed", "running", "skipped">>[i])]
             ELSE <<880, 120>>
    IN IF Len(a) # Len(p)
       THEN [err |-> "ValueError: 'a' and 'p' must have same size", a |-> a, p |-> p,
             status |-> ""]
       ELSE IF SumTo(p, Len(p)) # 1000
       THEN [err |-> "ValueError: probabilities do not sum to 1", a |-> a, p |-> p,
             status |-> ""]
       ELSE [err |-> "", a |-> a, p |-> p, status |-> a[NumpyChoice(p, 1000, u)]]

\* ------------------------------------------------------------------- inputs

in_Android == <<"A","n","d","r","o","i","d">>
in_qa == <<"q","a">>
in_MAIN == <<"M","A","I","N">>
in_bogus == <<"b","o","g","u","s">>
in_release_v2 == <<"r","e","l","e","a","s","e","/","v","2",".","1",".","0">>
in_Feature_Release == <<"F","e","a","t","u","r","e","/","R","e","l","e","a","s","e","-","1">>
in_hotfix_release_note == <<"h","o","t","f","i","x","-","r","e","l","e","a","s","e","-","n","o","t","e">>
in_feature_auth == <<"f","e","a","t","u","r","e","/","a","u","t","h">>
in_hotfix_bug == <<"h","o","t","f","i","x","/","b","u","g">>
in_bugfix == <<"b","u","g","f","i","x","/","x">>
in_Master == <<"M","a","s","t","e","r">>
in_mainline == <<"m","a","i","n","l","i","n","e">>
in_ProdRelease == <<"P","r","o","d","R","e","l","e","a","s","e">>
in_Staging == <<"S","t","a","g","i","n","g">>
in_7 == <<"7">>
in_m3 == <<"-","3">>
in_2p5 == <<"2",".","5">>
in_abc == <<"a","b","c">>
in_inf == <<"i","n","f">>
in_nan == <<"n","a","n">>

\* the most keys a context of KeyContexts holds
MaxExtraKeys == 1

\* the keys whose value the code reads as text
StringKeys ==
    {"projectType", "project_type", "branch", "branchType", "branch_type",
     "buildType", "build_type", "environment"}
\* number keys given every kind of value
ProbeKeys == {"repoSizeMb", "source_files_pct", "filesChanged", "is_monorepo", "timeOfDayHour"}
\* number keys given a number and a null
FlagKeys ==
    {"repo_size_mb", "sourceFilesPct", "stagesCount", "depsChanged",
     "isMonorepo", "files_changed", "linesAdded", "lines_added", "linesDeleted",
     "lines_deleted", "deps_file_changed", "dependencyCount", "dependency_count",
     "testFilesChanged", "test_files_changed", "stages_count",
     "hasBuildStage", "has_build_stage", "hasUnitTests", "has_unit_tests",
     "hasIntegrationTests", "has_integration_tests", "hasE2ETests", "has_e2e_tests",
     "hasDeployStage", "has_deploy_stage", "hasDockerBuild", "has_docker_build",
     "usesEmulator", "uses_emulator", "parallelStages", "parallel_stages",
     "hasArtifactPublish", "has_artifact_publish", "isFirstBuild", "is_first_build",
     "cacheAvailable", "cache_available", "isCleanBuild", "is_clean_build",
     "time_of_day_hour", "debug"}
AllKeys == StringKeys \cup ProbeKeys \cup FlagKeys

StringKeyValues ==
    {StrV(in_Android), StrV(s_release), StrV(in_ProdRelease), StrV(in_Staging),
     StrV(in_qa), StrV(s_main), StrV(<<>>), IntV(3), NoneV}
NumberValues ==
    {IntV(0), IntV(1), IntV(7), BoolV(TRUE), BoolV(FALSE),
     FloatV(2900), FloatV(-7900), FloatV(250), InfV(1), NaNV,
     StrV(in_7), StrV(in_m3), StrV(in_2p5), StrV(in_abc), StrV(in_inf), StrV(in_nan),
     NoneV, ListV}
FlagValues == {IntV(2), NoneV}

ValuesFor(key) ==
    IF key \in StringKeys THEN StringKeyValues
    ELSE IF key \in ProbeKeys THEN NumberValues
    ELSE FlagValues

EmptyContext == [key \in {} |-> NoneV]
SingleEdits == UNION {{key :> v : v \in ValuesFor(key)} : key \in AllKeys}

\* the contexts of at most n keys
RECURSIVE ContextsUpTo(_)
ContextsUpTo(n) ==
    IF n = 0 THEN {EmptyContext}
    ELSE ContextsUpTo(n - 1) \cup {e @@ c : e \in SingleEdits, c \in ContextsUpTo(n - 1)}
KeyContexts == ContextsUpTo(MaxExtraKeys)

\* the spec's examples, and a context in snake_case
AndroidExample ==
    ("projectType" :> StrV(s_android)) @@ ("branch" :> StrV(in_release_v2))
    @@ ("buildType" :> StrV(s_release)) @@ ("hasE2ETests" :> BoolV(TRUE))
    @@ ("usesEmulator" :> BoolV(TRUE))
HighExample ==
    ("hasE2ETests" :> BoolV(TRUE)) @@ ("usesEmulator" :> BoolV(TRUE))
    @@ ("stagesCount" :> IntV(7)) @@ ("isFirstBuild" :> BoolV(TRUE))
SnakeExample ==
    ("project_type" :> StrV(s_java)) @@ ("branch_type" :> StrV(s_hotfix))
    @@ ("files_changed" :> IntV(9)) @@ ("source_files_pct" :> FloatV(250))
    @@ ("time_of_day_hour" :> IntV(23))
Scenarios == {AndroidExample, HighExample, SnakeExample}
ScenarioContexts == {e @@ sc : e \in SingleEdits \cup {EmptyContext}, sc \in Scenarios}

\* every combination of the three keys that decide branch_type
BranchTypeValues ==
    {IntV(0), IntV(3), IntV(7), IntV(-1), BoolV(TRUE), StrV(s_main), StrV(in_MAIN),
     StrV(s_release), StrV(in_bogus), StrV(<<>>), FloatV(3000), NoneV, ListV}
BranchNames ==
    {StrV(s_develop), StrV(s_development), StrV(s_main), StrV(in_Master),
     StrV(in_mainline), StrV(in_feature_auth), StrV(in_Feature_Release),
     StrV(in_hotfix_bug), StrV(in_hotfix_release_note), StrV(in_release_v2),
     StrV(in_bugfix), StrV(<<>>), IntV(5)}
Optional(key, values) == {EmptyContext} \cup {key :> v : v \in values}
BranchContexts ==
    {a @@ b @@ c : a \in Optional("branchType", BranchTypeValues),
                   b \in Optional("branch_type", BranchTypeValues),
                   c \in Optional("branch", BranchNames)}

\* every combination of the keys of the five critical features
CriticalContexts ==
    {a @@ b @@ c @@ d @@ e :
        a \in Optional("projectType", {StrV(s_python), StrV(s_android), StrV(in_bogus)}),
        b \in Optional("hasE2ETests", {BoolV(FALSE), BoolV(TRUE)}),
        c \in Optional("uses_emulator", {IntV(0), IntV(1)}),
        d \in Optional("stagesCount", {IntV(3), IntV(7), FloatV(3900)}),
        e \in Optional("isFirstBuild", {BoolV(FALSE), BoolV(TRUE)})}

FewContexts ==
    {EmptyContext, AndroidExample, "debug" :> BoolV(TRUE),
     "filesChanged" :> StrV(in_abc), "repoSizeMb" :> InfV(1)}

\* what the model returns for one coordinate of its output row
RawValues ==
    {InfV(-1), FloatV(-5000), FloatV(0), FloatV(449), FloatV(500), FloatV(505),
     FloatV(950), FloatV(1000), FloatV(9949), FloatV(10000), FloatV(42350),
     FloatV(99950), FloatV(100000), FloatV(100001), InfV(1), NaNV}
TypicalPrediction ==
    [raises |-> FALSE, row |-> <<FloatV(42350), FloatV(3274), FloatV(12840)>>]
Predictions ==
    {[raises |-> TRUE, row |-> <<NaNV, NaNV, NaNV>>]}
    \cup {[raises |-> FALSE, row |-> <<a, b, c>>] : a \in RawValues, b \in RawValues, c \in RawValues}

ClockHours == 0..23

\* the files a run starts from: the generator and the trainer have run, or not yet
Trained ==
    [csv |-> GeneratedFile,
     status |-> "ok",
     artifact |-> [exists |-> TRUE, features |-> TRAIN_FEATURE_COLUMNS, targets |-> TARGET_COLUMNS]]
Untrained == [csv |-> NoFile, status |-> "idle", artifact |-> NoArtifact]

\* the csv files the trainer is pointed at: some columns of the generated
\* header left out, a status column or none, row counts around the threshold
DroppableColumns ==
    {"project_type", "is_monorepo", "time_of_day_hour", "cpu_avg_pct", "build_time_min"}
RowCounts == {0, MIN_TRAINING_ROWS - 1, MIN_TRAINING_ROWS, NUM_RECORDS}
WithStatus(columns, has_status) == IF has_status THEN Append(columns, "status") ELSE columns
TrainingFiles ==
    {[exists |-> TRUE,
      columns |-> WithStatus(SelectSeq(training_cols, LAMBDA c : c \notin dropped), has_status),
      rows |-> nk[1], success_rows |-> IF has_status THEN nk[2] ELSE 0,
      origin |-> "supplied"] :
        dropped \in SUBSET DroppableColumns, has_status \in BOOLEAN,
        nk \in {x \in RowCounts \X RowCounts : x[2] <= x[1]}}
Untrained_With(csv) == [csv |-> csv, status |-> "idle", artifact |-> NoArtifact]

StartConfig(c, h, p, valid, files) ==
    [context |-> c, now_hour |-> h, prediction |-> p, input_valid |-> valid, files |-> files]
StartConfigs ==
    {StartConfig(c, 12, TypicalPrediction, TRUE, Trained) :
        c \in KeyContexts \cup ScenarioContexts \cup BranchContexts \cup CriticalContexts}
    \cup {StartConfig(c, h, TypicalPrediction, TRUE, Trained) : c \in FewContexts, h \in ClockHours}
    \cup {StartConfig(c, 12, p, TRUE, Trained) :
            c \in {EmptyContext, AndroidExample}, p \in Predictions}
    \cup {StartConfig(c, 12, TypicalPrediction, valid, Untrained) :
            c \in FewContexts, valid \in BOOLEAN}
    \cup {StartConfig(EmptyContext, 12, TypicalPrediction, TRUE, Untrained_With(csv)) :
            csv \in TrainingFiles}

\* ---------------------------------------------------------- generator inputs

\* the most records the loop of generate_dataset (520) is followed for
MaxRecords == 2

NoRecord == [build_id |-> 0]
NoArgs == [project_type_name |-> ""]
NoCall == [args |-> NoArgs]
NoStatusDraw == [err |-> "", a |-> <<>>, p |-> <<>>, status |-> ""]
NoSource == [path |-> FALSE, exists |-> FALSE, status_rates |-> <<>>]

StageFlags ==
    {"has_unit_tests", "has_integration_tests", "has_e2e_tests", "uses_emulator",
     "has_docker_build"}
\* a pipeline config with the stage flags of the set on
ConfigWith(on) ==
    LET flag(name) == IF name \in on THEN 1 ELSE 0
    IN [has_build_stage |-> 1,
        has_unit_tests |-> flag("has_unit_tests"),
        has_integration_tests |-> flag("has_integration_tests"),
        has_e2e_tests |-> flag("has_e2e_tests"),
        has_deploy_stage |-> 0,
        has_docker_build |-> flag("has_docker_build"),
        uses_emulator |-> flag("uses_emulator"),
        parallel_stages |-> 1,
        stages_count |-> 1 + flag("has_unit_tests") + flag("has_integration_tests")
                         + flag("has_e2e_tests")]
Args(name, on, cache, first, release, clean, mono) ==
    [project_type_name |-> name, pipeline_config |-> ConfigWith(on),
     cache_available |-> cache, is_first_build |-> first, is_release |-> release,
     is_clean_build |-> clean, is_monorepo |-> mono]

\* every project type with every pipeline configuration, no modifier
EnvelopeArgs ==
    {Args(name, on, 1, 0, 0, 0, 0) : name \in Range(GEN_PROJECT_TYPES), on \in SUBSET StageFlags}
\* every project type with every combination of the modifiers
ModifierArgs ==
    {Args(name, on, cache, first, release, clean, mono) :
        name \in Range(GEN_PROJECT_TYPES),
        on \in {{}, {"has_unit_tests", "has_e2e_tests"}},
        cache \in {0, 1}, first \in {0, 1}, release \in {0, 1}, clean \in {0, 1},
        mono \in {0, 1}}

\* streams of random.random(), in thousandths, each repeated for ever
CallStreams == {<<0>>, <<500>>, <<999>>, <<0, 999>>, <<999, 0>>}
RecordStreams ==
    {<<0>>, <<50>>, <<200>>, <<500>>, <<650>>, <<999>>, <<0, 999>>, <<999, 0>>,
     <<50, 500, 950>>}
\* streams of np.random: the draws of one record are project type, branch
\* type, environment, status and hour
NumpyStream(project, branch, status1, status2) ==
    <<project, branch, 0, status1, 500, project, branch, 0, status2, 500>>
\* a draw of random() for each of the k outcomes of a choice among k
EveryDraw(k) == {(i * 1000) \div k + 1 : i \in 0..(k - 1)}
\* streams that make generate_branch_name produce each of its names: one of
\* 13 suffixes, main or master, one of 4 hotfix words, and each of the
\* 5 * 10 * 21 release versions
ChoiceStreams == {<<u>> : u \in EveryDraw(13) \cup EveryDraw(2) \cup EveryDraw(4)}
VersionStreams ==
    {<<u1, u2, u3>> : u1 \in EveryDraw(5), u2 \in EveryDraw(10), u3 \in EveryDraw(21)}
ProjectDraws == {0, 300, 500, 700, 850, 950}
BranchDraws == {0, 400, 600, 850, 950}
StatusDraws == {0, 350, 650, 950}

\* the status distributions of a Kaggle file: up to four of five status
\* values in any order of frequency
StatusValues == {"success", "failed", "running", "skipped", "cancelled"}
RateVectors ==
    {<<1000>>, <<880, 120>>, <<750, 250>>, <<500, 300, 200>>, <<500, 250, 250>>,
     <<400, 300, 200, 100>>, <<250, 250, 250, 250>>}
OrdersOf(k) ==
    {f \in [1..k -> StatusValues] : \A i, j \in 1..k : i # j => f[i] # f[j]}
StatusDistributions ==
    UNION {{[i \in 1..Len(rates) |-> [status |-> names[i], rate |-> rates[i]]] :
                names \in OrdersOf(Len(rates))} : rates \in RateVectors}
KaggleSources ==
    {NoSource, [path |-> TRUE, exists |-> FALSE, status_rates |-> <<>>]}
    \cup {[path |-> TRUE, exists |-> TRUE, status_rates |-> dist] :
                dist \in StatusDistributions}

GeneratorStart(pc0, random, np, source, args) ==
    [gen_pc |-> pc0, random |-> random, np |-> np, kaggle_source |-> source,
     call_args |-> args]
GeneratorIdle == GeneratorStart("idle", <<0>>, <<0>>, NoSource, NoArgs)
GeneratorStarts ==
    {GeneratorStart("resources", random, <<0>>, NoSource, args) :
        random \in CallStreams, args \in EnvelopeArgs \cup ModifierArgs}
    \cup {GeneratorStart("start", random, NumpyStream(project, branch, 0, 950), source, NoArgs) :
            random \in RecordStreams, project \in ProjectDraws, branch \in BranchDraws,
            source \in {NoSource, [path |-> TRUE, exists |-> FALSE, status_rates |-> <<>>]}}
    \cup {GeneratorStart("start", random, NumpyStream(700, branch, 0, 950), NoSource, NoArgs) :
            random \in ChoiceStreams, branch \in BranchDraws \ {950}}
    \cup {GeneratorStart("start", random, NumpyStream(700, 950, 0, 950), NoSource, NoArgs) :
            random \in VersionStreams}
    \cup {GeneratorStart("start", <<650>>, NumpyStream(850, 600, u, u), source, NoArgs) :
            u \in StatusDraws, source \in KaggleSources}

\* -------------------------------------------------------------------- state

VARIABLES
    input_valid,     \* whether --input parses as JSON
    context,         \* the parsed build context
    now_hour,        \* datetime.now().hour
    prediction,      \* what the model at --model does on the feature vector
    training_csv,    \* the csv file at the trainer's --data path
    train_status,    \* the trainer's run: "idle", "ok" or "failed"
    train_report,    \* what a failed run of the trainer printed on standard error
    model_artifact,  \* model.pkl and features.json as the trainer wrote them
    pc,              \* where main() of predict.py is
    features,        \* the features dict, in insertion order
    X,               \* the vector handed to model.predict
    model_log,       \* the calls made on the model file: "load", "predict"
    result,          \* the result dict
    stdout,          \* the result objects printed
    stderr,          \* the errors printed
    exit_code        \* -1 while main() runs

vars ==
    <<input_valid, context, now_hour, prediction, training_csv, train_status,
      train_report, model_artifact, pc, features, X, model_log, result, stdout, stderr,
      exit_code, gen>>

inputs == <<input_valid, context, now_hour, prediction>>
files == <<training_csv, train_status, train_report, model_artifact>>

\* predict.py and train_model.py before main() runs
PredictorInit(cfg) ==
    /\ input_valid = cfg.input_valid
    /\ context = cfg.context
    /\ now_hour = cfg.now_hour
    /\ prediction = cfg.prediction
    /\ training_csv = cfg.files.csv
    /\ train_status = cfg.files.status
    /\ train_report = NoReport
    /\ model_artifact = cfg.files.artifact
    /\ pc = "load"
    /\ features = <<>>
    /\ X = <<>>
    /\ model_log = <<>>
    /\ result = NoResult
    /\ stdout = <<>>
    /\ stderr = <<>>
    /\ exit_code = -1

\* the generator at gen_pc on its inputs, nothing generated yet
GeneratorInit(start) ==
    /\ rng = [random |-> start.random, pos |-> 0, np |-> start.np, np_pos |-> 0]
    /\ gen_pc = start.gen_pc
    /\ kaggle_source = start.kaggle_source
    /\ kaggle_patterns = NoPatterns
    /\ pipeline_call = NoCall
    /\ call_args = start.call_args
    /\ record = NoRecord
    /\ record_count = 0
    /\ calc = NoCall
    /\ prev_calc = NoCall
    /\ status_draw = NoStatusDraw

Init == \E cfg \in StartConfigs : PredictorInit(cfg) /\ GeneratorInit(GeneratorIdle)

\* generate_enhanced_dataset.py main(): writes training_features.csv
GenerateDataset ==
    /\ ~training_csv.exists
    /\ training_csv' = GeneratedFile
    /\ UNCHANGED <<inputs, gen, train_status, train_report, model_artifact, pc, features, X, model_log,
                   result, stdout, stderr, exit_code>>

\* train_model.py main(): exits 1 on a missing dataset (253-255) or a
\* load_data error (281-285), and otherwise saves the model with the columns
\* it was fitted on
TrainModel ==
    /\ train_status = "idle"
    /\ IF ~training_csv.exists
       THEN /\ train_status' = "failed"
            /\ train_report' = [err |-> "Dataset file not found", missing |-> <<>>]
            /\ UNCHANGED model_artifact
       ELSE LET loaded == load_data(training_csv) IN
            IF loaded.err = ""
            THEN /\ train_status' = "ok"
                 /\ model_artifact' = [exists |-> TRUE, features |-> loaded.X,
                                       targets |-> loaded.y]
                 /\ UNCHANGED train_report
            ELSE /\ train_status' = "failed"
                 /\ train_report' = [err |-> loaded.err, missing |-> loaded.missing]
                 /\ UNCHANGED model_artifact
    /\ UNCHANGED <<inputs, gen, training_csv, pc, features, X, model_log, result, stdout,
                   stderr, exit_code>>

\* predict.py 253-260
LoadInput ==
    /\ pc = "load"
    /\ IF input_valid
       THEN /\ pc' = "engineer"
            /\ UNCHANGED <<stderr, exit_code>>
       ELSE /\ pc' = "done"
            /\ stderr' = Append(stderr, "Invalid input JSON")
            /\ exit_code' = 1
    /\ UNCHANGED <<inputs, gen, files, features, X, model_log, result, stdout>>

\* predict.py 264, 279-282
EngineerFeatures ==
    /\ pc = "engineer"
    /\ LET r == engineer_features(context, now_hour) IN
       IF r.err = ""
       THEN /\ features' = r.features
            /\ pc' = "predict"
            /\ UNCHANGED <<stderr, exit_code>>
       ELSE /\ pc' = "done"
            /\ stderr' = Append(stderr, r.err)
            /\ exit_code' = 1
            /\ UNCHANGED features
    /\ UNCHANGED <<inputs, gen, files, X, model_log, result, stdout>>

\* predict.py 267, 279-282; joblib.load and model.predict (195, 201) are
\* reached only past the os.path.exists test of 191
PredictResources ==
    /\ pc = "predict"
    /\ model_log' = model_log \o model_calls(model_artifact.exists)
    /\ LET r == predict_resources(features, model_artifact.exists, prediction) IN
       IF r.err = ""
       THEN /\ result' = r.result
            /\ X' = AssembleX(features)
            /\ pc' = "confidence"
            /\ UNCHANGED <<stderr, exit_code>>
       ELSE /\ pc' = "done"
            /\ stderr' = Append(stderr, r.err)
            /\ exit_code' = 1
            /\ UNCHANGED <<result, X>>
    /\ UNCHANGED <<inputs, gen, files, features, stdout>>

\* predict.py 270-277
EmitResult ==
    /\ pc = "confidence"
    /\ LET withConfidence == [result EXCEPT !.confidence = get_confidence(features)]
           final == IF Truthy(Get(context, "debug", BoolV(FALSE)))
                    THEN [withConfidence EXCEPT !.features = features]
                    ELSE withConfidence
       IN /\ result' = final
          /\ stdout' = Append(stdout, final)
    /\ pc' = "done"
    /\ exit_code' = 0
    /\ UNCHANGED <<inputs, gen, files, features, X, model_log, stderr>>

Next ==
    \/ GenerateDataset
    \/ TrainModel
    \/ LoadInput
    \/ EngineerFeatures
    \/ PredictResources
    \/ EmitResult

Spec == Init /\ [][Next]_vars

\* ---------------------------------------------------------- generator steps

predictor ==
    <<inputs, files, pc, features, X, model_log, result, stdout, stderr, exit_code>>

\* generate_enhanced_dataset.py 510-512
LoadKagglePatterns ==
    /\ gen_pc = "start"
    /\ kaggle_patterns' = load_patterns(kaggle_source)
    /\ gen_pc' = "context"
    /\ UNCHANGED <<predictor, rng, kaggle_source, pipeline_call, call_args, record,
                   record_count, calc, prev_calc, status_draw>>

\* generate_enhanced_dataset.py 520-523 and 376-437: the next record, up to
\* the arguments of calculate_resources
GenerateRecordContext ==
    /\ gen_pc = "context"
    /\ record_count < MaxRecords
    /\ LET ctx == record_context(record_count + 1, NumpyDraw(rng, 1), NumpyDraw(rng, 2),
                                 NumpyDraw(rng, 3), RandomDraws(rng))
       IN /\ record' = ctx.fields
          /\ call_args' = ctx.args
          /\ pipeline_call' = ctx.pipeline_call
          /\ rng' = [rng EXCEPT !.pos = @ + ctx.n, !.np_pos = @ + 3]
    /\ gen_pc' = "resources"
    /\ UNCHANGED <<predictor, kaggle_source, kaggle_patterns, record_count, calc, prev_calc,
                   status_draw>>

\* generate_enhanced_dataset.py 173-249: the call of calculate_resources, from
\* generate_single_record (429) or on arguments of its own
CalculateResources ==
    /\ gen_pc = "resources"
    /\ LET frame == calculate_resources(call_args, RandomDraws(rng))
       IN /\ calc' = frame
          /\ prev_calc' = calc
          /\ rng' = [rng EXCEPT !.pos = @ + Len(frame.draws)]
    /\ gen_pc' = IF record = NoRecord THEN "returned" ELSE "status"
    /\ UNCHANGED <<predictor, kaggle_source, kaggle_patterns, pipeline_call, call_args,
                   record, record_count, status_draw>>

\* generate_enhanced_dataset.py 439-500: the status, the hour, the ids and the
\* returned record; a ValueError of np.random.choice ends the generator
FinishRecord ==
    /\ gen_pc = "status"
    /\ LET drawn == draw_status(kaggle_patterns, NumpyDraw(rng, 1))
       IN /\ status_draw' = drawn
          /\ IF drawn.err # ""
             THEN /\ gen_pc' = "crashed"
                  /\ UNCHANGED <<record, record_count, rng>>
             ELSE /\ record' =
                        record @@ calc.result
                        @@ [status |-> drawn.status,
                            time_of_day_hour |->
                                NumpyChoice(HOUR_WEIGHTS, SumTo(HOUR_WEIGHTS, Len(HOUR_WEIGHTS)),
                                            NumpyDraw(rng, 2)) - 1]
                  /\ record_count' = record_count + 1
                  /\ rng' = [rng EXCEPT !.np_pos = @ + 2, !.pos = @ + 3]
                  /\ gen_pc' = IF record_count + 1 < MaxRecords THEN "context" ELSE "done"
    /\ UNCHANGED <<predictor, kaggle_source, kaggle_patterns, pipeline_call, call_args,
                   calc, prev_calc>>

GenInit ==
    /\ PredictorInit(StartConfig(EmptyContext, 12, TypicalPrediction, TRUE, Untrained))
    /\ \E start \in GeneratorStarts : GeneratorInit(start)

GenNext ==
    \/ LoadKagglePatterns
    \/ GenerateRecordContext
    \/ CalculateResources
    \/ FinishRecord

GenSpec == GenInit /\ [][GenNext]_vars

\* ------------------------------------------------------------------- claims

\* engineer_features has returned in this run
Engineered == features # <<>>
\* the run has ended in the handler of an exception raised by engineer_features
EngineerRaised == pc = "done" /\ input_valid /\ features = <<>>
\* the value of one feature of the returned dict
Feat(name) == FeatureGet(features, name, NoneV)
FeatureNames(fs) == [i \in 1..Len(fs) |-> fs[i].name]
Present(key) == key \in DOMAIN context

\* C1: what engineer_features returns for a build context is exactly 27 named
\* values whose names and order are FEATURE_COLUMNS, each a finite number.
C1_Returns27Finite ==
    Engineered =>
        /\ Len(features) = 27
        /\ FeatureNames(features) = FEATURE_COLUMNS
        /\ \A i \in 1..Len(features) : IsFinite(features[i].val)

\* the file at the trainer's path is the one main() of the generator wrote
Generated_csv == training_csv.exists /\ training_csv.origin = "generator"

\* C2: the 27 feature names are the same, position by position, in the
\* columns the generator writes, in the columns the trainer fits on and in the
\* vector the predictor assembles; and the predictor reads the model's output
\* row in the order of the trainer's target columns (cpu, memory, time).
TargetIndex(name) == CHOOSE i \in 1..Len(model_artifact.targets) : model_artifact.targets[i] = name
C2_ColumnContract ==
    /\ Generated_csv =>
          /\ Len(training_csv.columns) = 30
          /\ SubSeq(training_csv.columns, 1, 27) = FEATURE_COLUMNS
    /\ model_artifact.exists =>
          /\ model_artifact.features = FEATURE_COLUMNS
          /\ Len(model_artifact.targets) = 3
          /\ Generated_csv =>
                /\ SubSeq(training_csv.columns, 1, 27) = model_artifact.features
                /\ SubSeq(training_csv.columns, 28, 30) = model_artifact.targets
    /\ X # <<>> => FeatureNames(X) = model_artifact.features
    /\ result.method # "" =>
          /\ result.cpu = PyRound(ClampCpu(prediction.row[TargetIndex("cpu_avg_pct")]), 100)
          /\ result.memoryGb = PyRound(ClampMemory(prediction.row[TargetIndex("memory_gb")]), 10)
          /\ result.timeMinutes = PyRound(ClampTime(prediction.row[TargetIndex("build_time_min")]), 100)

\* a run that generated the dataset, trained on it and predicted with the model
C2_Witness ==
    /\ context = EmptyContext
    /\ Generated_csv /\ train_status = "ok" /\ model_artifact.exists
    /\ X # <<>> /\ pc = "done" /\ exit_code = 0
    /\ prediction.row[1] # prediction.row[2]

\* C3: whatever the model returns, predict_resources returns cpu in
\* [10, 100], memoryGb >= 0.5 and timeMinutes >= 1.
AtLeastMilli(v, m) == (v.k = "inf" /\ v.n > 0) \/ (IsFinite(v) /\ Milli(v) >= m)
C3_OutputClamped ==
    result.method # "" =>
        /\ IsFinite(result.cpu) /\ Milli(result.cpu) >= 10000 /\ Milli(result.cpu) <= 100000
        /\ AtLeastMilli(result.memoryGb, 500)
        /\ AtLeastMilli(result.timeMinutes, 1000)

\* a result computed from a row out of range in every coordinate
C3_Witness ==
    /\ result.method # ""
    /\ prediction.row[1] = NaNV
    /\ prediction.row[2] = FloatV(-5000)
    /\ prediction.row[3] = InfV(-1)

\* C4: the confidence is "high" iff at least 4 of project_type,
\* has_e2e_tests, uses_emulator, stages_count, is_first_build differ from
\* 0, 0, 0, 3, 0, "medium" iff 2 or 3 differ and "low" iff at most 1 differs;
\* the empty context gives "low" and the four-flag example gives "high".
Differs(name, default) == IF Feat(name).n # default THEN 1 ELSE 0
DifferingCritical ==
    Differs("project_type", 0) + Differs("has_e2e_tests", 0) + Differs("uses_emulator", 0)
    + Differs("stages_count", 3) + Differs("is_first_build", 0)
C4_Confidence ==
    result.confidence # "" =>
        /\ result.confidence = "high" <=> DifferingCritical >= 4
        /\ result.confidence = "medium" <=> DifferingCritical \in {2, 3}
        /\ result.confidence = "low" <=> DifferingCritical <= 1
        /\ context = EmptyContext => result.confidence = "low"
        /\ context = HighExample => result.confidence = "high"

\* the four-flag example, labelled
C4_Witness == context = HighExample /\ result.confidence = "high" /\ DifferingCritical = 4

\* C5 as stated: an explicit integer code is used verbatim whatever the
\* branch name; otherwise an explicit string name is looked up without regard
\* to case, 0 when unmatched; only when neither is supplied is the code
\* inferred from the branch name.
ExplicitBranchType == Get2(context, "branchType", "branch_type", NoneV)
BranchName == Get(context, "branch", StrV(s_develop))
C5_Original ==
    Engineered =>
        /\ IsInstanceInt(ExplicitBranchType) => Feat("branch_type") = ExplicitBranchType
        /\ IsInstanceStr(ExplicitBranchType) =>
              Feat("branch_type") = IntV(DictGet(BRANCH_TYPES, Lower(ExplicitBranchType.s), 0))
        /\ ~IsInstanceInt(ExplicitBranchType) /\ ~IsInstanceStr(ExplicitBranchType) =>
              Feat("branch_type") = InferBranchType(BranchName).val

\* C5 as amended: the string name is looked up only when it is not empty; an
\* empty string, like a value that is neither an integer nor a string, leaves
\* the code to be inferred from the branch name.
C5_BranchTypePriority ==
    Engineered =>
        /\ IsInstanceInt(ExplicitBranchType) => Feat("branch_type") = ExplicitBranchType
        /\ IsInstanceStr(ExplicitBranchType) /\ ExplicitBranchType.s # <<>> =>
              Feat("branch_type") = IntV(DictGet(BRANCH_TYPES, Lower(ExplicitBranchType.s), 0))
        /\ ~IsInstanceInt(ExplicitBranchType)
           /\ ~(IsInstanceStr(ExplicitBranchType) /\ ExplicitBranchType.s # <<>>) =>
              Feat("branch_type") = InferBranchType(BranchName).val

\* an explicit code that wins over a branch name of another type, after a
\* run in which the explicit name was given in capitals
C5_Witness ==
    /\ Engineered
    /\ Present("branchType") /\ context["branchType"] = IntV(3)
    /\ Present("branch_type") /\ context["branch_type"] = StrV(in_MAIN)
    /\ Present("branch") /\ context["branch"] = StrV(in_feature_auth)
    /\ Feat("branch_type") = IntV(3)

\* C6: the code inferred from the branch name applies, on the lower-cased
\* name and first match first: contains "feature" -> 0; is "develop" or
\* "development" -> 1; is "main" or "master" -> 2; contains "hotfix" -> 3;
\* contains "release" -> 4; otherwise 0.
Inferring ==
    /\ Engineered
    /\ ~IsInstanceInt(ExplicitBranchType)
    /\ ~(IsInstanceStr(ExplicitBranchType) /\ ExplicitBranchType.s # <<>>)
C6_InferenceOrder ==
    Inferring =>
        LET b == Lower(BranchName.s)
            isFeature == Contains(s_feature, b)
            isDevelop == b = s_develop \/ b = s_development
            isMain == b = s_main \/ b = s_master
            isHotfix == Contains(s_hotfix, b)
            isRelease == Contains(s_release, b)
            code == Feat("branch_type")
        IN /\ isFeature => code = IntV(0)
           /\ ~isFeature /\ isDevelop => code = IntV(1)
           /\ ~isFeature /\ isMain => code = IntV(2)
           /\ ~isFeature /\ ~isDevelop /\ ~isMain /\ isHotfix => code = IntV(3)
           /\ ~isFeature /\ ~isDevelop /\ ~isMain /\ ~isHotfix /\ isRelease => code = IntV(4)
           /\ ~isFeature /\ ~isDevelop /\ ~isMain /\ ~isHotfix /\ ~isRelease => code = IntV(0)
           /\ isFeature /\ isRelease => code = IntV(0)
           /\ isHotfix /\ isRelease /\ ~isFeature => code = IntV(3)

\* a name with both "hotfix" and "release" in it, inferred as a hotfix
C6_Witness ==
    /\ Inferring
    /\ BranchName = StrV(in_hotfix_release_note)
    /\ Feat("branch_type") = IntV(3)

\* C7: whenever engineer_features returns, project_type is in 0..5,
\* branch_type in 0..4, build_type in {0, 1} and environment in {0, 1, 2}, and
\* an unknown project type, branch type name or build type maps to 0.
IsCode(v, codes) == v.k \in {"int", "bool"} /\ v.n \in codes
C7_ValidCodes ==
    Engineered =>
        /\ IsCode(Feat("project_type"), 0..5)
        /\ IsCode(Feat("branch_type"), 0..4)
        /\ IsCode(Feat("build_type"), {0, 1})
        /\ IsCode(Feat("environment"), {0, 1, 2})
        /\ LET pt == Get2(context, "projectType", "project_type", StrV(s_unknown))
           IN (\A e \in PROJECT_TYPES : e[1] # Lower(pt.s)) => Feat("project_type") = IntV(0)
        /\ LET bt == Get(context, "buildType", StrV(s_debug))
           IN Lower(bt.s) \notin {s_release, s_prodrelease} => Feat("build_type") = IntV(0)

\* the twin of a snake_case key: the camelCase key of the same feature
CamelKey ==
    [project_type |-> "projectType", repo_size_mb |-> "repoSizeMb",
     is_monorepo |-> "isMonorepo", branch_type |-> "branchType",
     build_type |-> "buildType", files_changed |-> "filesChanged",
     lines_added |-> "linesAdded", lines_deleted |-> "linesDeleted",
     source_files_pct |-> "sourceFilesPct", deps_file_changed |-> "depsChanged",
     dependency_count |-> "dependencyCount", test_files_changed |-> "testFilesChanged",
     stages_count |-> "stagesCount", has_build_stage |-> "hasBuildStage",
     has_unit_tests |-> "hasUnitTests", has_integration_tests |-> "hasIntegrationTests",
     has_e2e_tests |-> "hasE2ETests", has_deploy_stage |-> "hasDeployStage",
     has_docker_build |-> "hasDockerBuild", uses_emulator |-> "usesEmulator",
     parallel_stages |-> "parallelStages", has_artifact_publish |-> "hasArtifactPublish",
     is_first_build |-> "isFirstBuild", cache_available |-> "cacheAvailable",
     is_clean_build |-> "isCleanBuild", time_of_day_hour |-> "timeOfDayHour"]

\* C8: a context that gives a feature only under its snake_case key yields
\* the same feature value as the context that gives it only under the
\* camelCase key, for every feature.
C8_UniformKeys ==
    \A snake \in DOMAIN CamelKey :
        (pc = "done" /\ input_valid /\ DOMAIN context = {snake}) =>
            LET twin == engineer_features(CamelKey[snake] :> context[snake], now_hour)
            IN IF twin.err # "" THEN EngineerRaised
               ELSE Engineered /\ Feat(snake) = FeatureGet(twin.features, snake, NoneV)

\* C9: a feature neither of whose keys is present takes its documented
\* default whatever else the context holds, and the android release example
\* encodes project_type 4, branch_type 4, build_type 1, has_e2e_tests 1,
\* uses_emulator 1 with every other field at its default.
DocumentedDefaults ==
    << <<"project_type", {"projectType", "project_type"}, IntV(0)>>,
       <<"repo_size_mb", {"repoSizeMb", "repo_size_mb"}, FloatV(100000)>>,
       <<"is_monorepo", {"isMonorepo", "is_monorepo"}, IntV(0)>>,
       <<"branch_type", {"branchType", "branch_type", "branch"}, IntV(1)>>,
       <<"build_type", {"buildType", "build_type"}, IntV(0)>>,
       <<"environment", {"environment"}, IntV(0)>>,
       <<"files_changed", {"filesChanged", "files_changed"}, IntV(5)>>,
       <<"lines_added", {"linesAdded", "lines_added"}, IntV(100)>>,
       <<"lines_deleted", {"linesDeleted", "lines_deleted"}, IntV(20)>>,
       <<"source_files_pct", {"sourceFilesPct", "source_files_pct"}, FloatV(800)>>,
       <<"deps_file_changed", {"depsChanged", "deps_file_changed"}, IntV(0)>>,
       <<"dependency_count", {"dependencyCount", "dependency_count"}, IntV(50)>>,
       <<"test_files_changed", {"testFilesChanged", "test_files_changed"}, IntV(0)>>,
       <<"stages_count", {"stagesCount", "stages_count"}, IntV(3)>>,
       <<"has_build_stage", {"hasBuildStage", "has_build_stage"}, IntV(1)>>,
       <<"has_unit_tests", {"hasUnitTests", "has_unit_tests"}, IntV(1)>>,
       <<"has_integration_tests", {"hasIntegrationTests", "has_integration_tests"}, IntV(0)>>,
       <<"has_e2e_tests", {"hasE2ETests", "has_e2e_tests"}, IntV(0)>>,
       <<"has_deploy_stage", {"hasDeployStage", "has_deploy_stage"}, IntV(0)>>,
       <<"has_docker_build", {"hasDockerBuild", "has_docker_build"}, IntV(0)>>,
       <<"uses_emulator", {"usesEmulator", "uses_emulator"}, IntV(0)>>,
       <<"parallel_stages", {"parallelStages", "parallel_stages"}, IntV(0)>>,
       <<"has_artifact_publish", {"hasArtifactPublish", "has_artifact_publish"}, IntV(0)>>,
       <<"is_first_build", {"isFirstBuild", "is_first_build"}, IntV(0)>>,
       <<"cache_available", {"cacheAvailable", "cache_available"}, IntV(1)>>,
       <<"is_clean_build", {"isCleanBuild", "is_clean_build"}, IntV(0)>> >>
AndroidEncoding ==
    [project_type |-> IntV(4), branch_type |-> IntV(4), build_type |-> IntV(1),
     has_e2e_tests |-> IntV(1), uses_emulator |-> IntV(1)]
C9_Defaults ==
    Engineered =>
        /\ \A i \in 1..Len(DocumentedDefaults) :
              LET d == DocumentedDefaults[i]
              IN d[2] \cap DOMAIN context = {} => Feat(d[1]) = d[3]
        /\ context = AndroidExample =>
              \A i \in 1..Len(DocumentedDefaults) :
                 LET d == DocumentedDefaults[i]
                 IN Feat(d[1]) = IF d[1] \in DOMAIN AndroidEncoding
                                 THEN AndroidEncoding[d[1]] ELSE d[3]

\* the android release example, engineered
C9_Witness ==
    /\ Engineered
    /\ context = AndroidExample
    /\ Feat("branch_type") = IntV(4)
    /\ Feat("stages_count") = IntV(3)

\* the keys engineer_features reads, by the type it coerces their value to
TextKeys == {"projectType", "project_type", "branch", "buildType", "environment"}
CodeKeys == {"branchType", "branch_type"}
FractionKeys == {"repoSizeMb", "repo_size_mb", "sourceFilesPct", "source_files_pct"}
HourKeys == {"timeOfDayHour", "time_of_day_hour"}
UnreadKeys == {"build_type", "debug"}
\* a present value that the type of its field cannot take (a null branch
\* type counts as none given)
Incompatible(key, v) ==
    CASE key \in UnreadKeys -> FALSE
      [] key \in TextKeys -> ~IsInstanceStr(v)
      [] key \in CodeKeys -> ~IsInstanceInt(v) /\ ~IsInstanceStr(v) /\ v.k # "null"
      [] key \in FractionKeys -> PyFloat(v).err # ""
      [] key \in HourKeys -> v.k # "null" /\ PyInt(v).err # ""
      [] OTHER -> PyInt(v).err # ""
\* the snake_case key is hidden when the camelCase key of its feature is present
Hidden(key) == key \in DOMAIN CamelKey /\ Present(CamelKey[key])

\* C10: engineer_features never fails on an absent field; it fails only on a
\* present value of an incompatible type, and every such value ends the run
\* with an error payload and a non-zero exit, never with a default or an
\* inferred value in its place.
C10_IncompatibleReported ==
    (pc = "done" /\ input_valid) =>
        LET offending == {key \in DOMAIN context : ~Hidden(key) /\ Incompatible(key, context[key])}
        IN /\ EngineerRaised => offending # {}
           /\ offending # {} => EngineerRaised /\ exit_code = 1 /\ stderr # <<>> /\ stdout = <<>>

\* the two ways a run of the prediction CLI ends
Succeeded ==
    /\ Len(stdout) = 1 /\ stdout[1] = result /\ result.method = "ml_enhanced_prediction"
    /\ stderr = <<>>
    /\ exit_code = 0
Failed ==
    /\ Len(stderr) = 1 /\ stderr[1] # ""
    /\ stdout = <<>>
    /\ exit_code = 1
\* main() passes line 267 while no file is at the model path
PredictsWithoutModel == pc = "predict" /\ pc' # "predict" /\ ~model_artifact.exists

\* C13: a run of the prediction CLI prints nothing before it ends and ends
\* either in success (one result object on standard output, nothing on
\* standard error, exit status 0) or in failure (one error object on standard
\* error, nothing on standard output, exit status 1), never both; an
\* unparsable input and a missing model path end in failure, and the model
\* is neither loaded nor invoked when the path does not exist.
C13_TwoOutcomes ==
    /\ [](pc # "done" => stdout = <<>> /\ stderr = <<>> /\ exit_code = -1)
    /\ [](pc = "done" => (Succeeded \/ Failed) /\ ~(Succeeded /\ Failed))
    /\ [](pc = "done" /\ ~input_valid => Failed /\ features = <<>> /\ model_log = <<>>)
    /\ [][PredictsWithoutModel => Failed' /\ pc' = "done" /\ model_log' = model_log]_vars
\* a run on a parsable context that ended at the missing model file
C13_Witness ==
    /\ pc = "done" /\ input_valid /\ Engineered
    /\ ~model_artifact.exists
    /\ Failed /\ stderr[1] = "FileNotFoundError" /\ model_log = <<>>

\* the names of a list that the header of the csv lacks
Lacking(cols) == {c \in Range(cols) : c \notin Range(training_csv.columns)}
\* the rows of the csv that the trainer may fit on
UsableRows ==
    IF "status" \in Range(training_csv.columns) THEN training_csv.success_rows
    ELSE training_csv.rows
Loadable ==
    /\ training_csv.exists
    /\ Lacking(TRAIN_FEATURE_COLUMNS) = {} /\ Lacking(TARGET_COLUMNS) = {}
    /\ UsableRows >= 50

\* C14: the trainer succeeds iff the csv has all 27 feature columns, all 3
\* target columns and at least 50 rows left by the status filter; a missing
\* feature column is reported with every missing feature name, else a missing
\* target column with every missing target name, else too few rows as not
\* enough data; every failed run exits without a model artifact written.
C14_LoadData ==
    [][train_status = "idle" /\ train_status' # "idle" =>
        /\ train_status' = "ok" <=> Loadable
        /\ train_status' = "ok" => model_artifact'.exists
        /\ train_status' = "failed" =>
              /\ model_artifact' = model_artifact
              /\ training_csv.exists =>
                    IF Lacking(TRAIN_FEATURE_COLUMNS) # {}
                    THEN /\ train_report'.err = "Missing feature columns"
                         /\ Range(train_report'.missing) = Lacking(TRAIN_FEATURE_COLUMNS)
                    ELSE IF Lacking(TARGET_COLUMNS) # {}
                    THEN /\ train_report'.err = "Missing target columns"
                         /\ Range(train_report'.missing) = Lacking(TARGET_COLUMNS)
                    ELSE /\ train_report'.err = "Not enough data to train"
                         /\ train_report'.missing = <<>>]_vars
\* a csv with every column and a thousand rows of which 49 are successful builds
C14_Witness ==
    /\ train_status = "failed"
    /\ Lacking(TRAIN_FEATURE_COLUMNS) = {} /\ Lacking(TARGET_COLUMNS) = {}
    /\ "status" \in Range(training_csv.columns)
    /\ training_csv.rows = NUM_RECORDS /\ training_csv.success_rows = 49
    /\ train_report.err = "Not enough data to train"

\* calculate_resources has been called
Called == calc # NoCall
\* the arguments of the last call with one more stage flag on
OneMore(flag) == [calc.args.pipeline_config EXCEPT ![flag] = 1]
\* both ends of the first interval are at least those of the second
Covers(more, less) == more[1] >= less[1] /\ more[2] >= less[2]

\* C11: for every project type and pipeline configuration, switching one
\* more stage flag on never lowers the upper bound of the sampled time
\* interval nor either end of the sampled memory and cpu intervals.
C11_EnvelopeMonotone ==
    Called =>
        \A flag \in StageFlags :
            calc.args.pipeline_config[flag] = 0 =>
                LET more == SamplingIntervals(calc.args.project_type_name, OneMore(flag))
                IN /\ more.time[2] >= calc.intervals.time[2]
                   /\ Covers(more.memory, calc.intervals.memory)
                   /\ Covers(more.cpu, calc.intervals.cpu)
\* a java pipeline with integration tests and no docker build, where the
\* docker addition has the lower cpu interval and still adds time
C11_Witness ==
    /\ Called
    /\ calc.args.project_type_name = "java"
    /\ calc.args.pipeline_config.has_integration_tests = 1
    /\ calc.args.pipeline_config.has_docker_build = 0
    /\ calc.intervals.cpu = <<60000, 90000>>
    /\ SamplingIntervals("java", OneMore("has_docker_build")).cpu = <<60000, 90000>>
    /\ SamplingIntervals("java", OneMore("has_docker_build")).time[2]
            > calc.intervals.time[2]

AdditionFlag ==
    [unit_tests |-> "has_unit_tests", integration |-> "has_integration_tests",
     e2e |-> "has_e2e_tests", emulator |-> "uses_emulator", docker |-> "has_docker_build"]
\* the named additions whose flag is set and which the profile defines
ExpectedAdditions(args) ==
    {a \in DOMAIN AdditionFlag :
        /\ args.pipeline_config[AdditionFlag[a]] # 0
        /\ a \in DOMAIN RESOURCE_PROFILES[args.project_type_name]}
\* the last call again with one flag off, on the draws it received
WithoutFlag(flag) ==
    calculate_resources([calc.args EXCEPT !.pipeline_config[flag] = 0], calc.draws)
Within(x, interval) == interval[1] <= x /\ x <= interval[2]

\* C15: the additions calculate_resources applies are exactly the named
\* additions whose pipeline flag is set and which the profile of the project
\* type defines, so has_e2e_tests changes nothing for python and java and
\* uses_emulator nothing for python, java, nodejs and ios; with no stage flag
\* set the sampled intervals are the baseline ones and the sampled point
\* lies within them.
C15_ActiveAdditions ==
    Called =>
        LET name == calc.args.project_type_name
            base == RESOURCE_PROFILES[name].base
        IN /\ Range(calc.additions) = ExpectedAdditions(calc.args)
           /\ calc.intervals
                = ApplyAdditions(RESOURCE_PROFILES[name], BaseIntervals(RESOURCE_PROFILES[name]),
                                 SelectSeq(<<"unit_tests", "integration", "e2e", "emulator",
                                             "docker">>,
                                           LAMBDA a : a \in ExpectedAdditions(calc.args)))
           /\ name \in {"python", "java"} =>
                    WithoutFlag("has_e2e_tests").result = calc.result
           /\ name \in {"python", "java", "nodejs", "ios"} =>
                    WithoutFlag("uses_emulator").result = calc.result
           /\ ExpectedAdditions(calc.args) = {} =>
                    /\ calc.intervals.memory = base.memory_gb
                    /\ calc.intervals.cpu = base.cpu_pct
                    /\ calc.intervals.time = base.time_min
                    /\ Within(calc.sampled.memory_val, base.memory_gb)
                    /\ Within(calc.sampled.cpu_val, base.cpu_pct)
                    /\ Within(calc.sampled.time_val, base.time_min)
\* a python pipeline with unit tests, e2e tests and an emulator: only the
\* unit tests count
C15_Witness ==
    /\ Called
    /\ calc.args.project_type_name = "python"
    /\ calc.args.pipeline_config.has_unit_tests = 1
    /\ calc.args.pipeline_config.has_e2e_tests = 1
    /\ calc.args.pipeline_config.uses_emulator = 1
    /\ calc.args.pipeline_config.has_docker_build = 0
    /\ calc.additions = <<"unit_tests">>

\* the greatest of the values f gives on the baseline and the active additions
MaxOver(names, profile, f(_)) ==
    LET values == {f(profile.base)} \cup {f(profile[a]) : a \in names}
    IN CHOOSE x \in values : \A y \in values : y <= x
\* the halves of the time upper bounds of the active additions, added up
RECURSIVE HalfTimes(_, _)
HalfTimes(names, profile) ==
    IF names = {} THEN 0
    ELSE LET a == CHOOSE x \in names : TRUE
         IN profile[a].time_min[2] \div 2 + HalfTimes(names \ {a}, profile)
\* the additions of a call in every order
Orders(additions) ==
    {[i \in 1..Len(additions) |-> additions[f[i]]] :
        f \in {g \in [1..Len(additions) -> 1..Len(additions)] :
                    \A i, j \in 1..Len(additions) : i # j => g[i] # g[j]}}

\* C16: the sampled memory and cpu intervals are the elementwise maximum of
\* both ends over the baseline and the active additions, the time lower
\* bound the maximum of the lower bounds, the time upper bound the baseline
\* upper bound plus half of each active addition's time upper bound; no
\* order of the additions gives other intervals.
C16_Intervals ==
    Called =>
        LET profile == RESOURCE_PROFILES[calc.args.project_type_name]
            active == ExpectedAdditions(calc.args)
        IN /\ calc.intervals.memory[1] = MaxOver(active, profile, LAMBDA st : st.memory_gb[1])
           /\ calc.intervals.memory[2] = MaxOver(active, profile, LAMBDA st : st.memory_gb[2])
           /\ calc.intervals.cpu[1] = MaxOver(active, profile, LAMBDA st : st.cpu_pct[1])
           /\ calc.intervals.cpu[2] = MaxOver(active, profile, LAMBDA st : st.cpu_pct[2])
           /\ calc.intervals.time[1] = MaxOver(active, profile, LAMBDA st : st.time_min[1])
           /\ calc.intervals.time[2] = profile.base.time_min[2] + HalfTimes(active, profile)
           /\ \A order \in Orders(calc.additions) :
                    ApplyAdditions(profile, BaseIntervals(profile), order) = calc.intervals
\* an android pipeline with all four additions of its profile: 20 minutes
\* and the halves of 30, 45, 90 and 120
C16_Witness ==
    /\ Called
    /\ calc.args.project_type_name = "android"
    /\ Len(calc.additions) = 4
    /\ calc.intervals.time = <<45000, 162500>>
    /\ calc.intervals.memory = <<12000, 24000>>

\* the last call again without the release flag, on the draws it received
NotAsRelease == calculate_resources([calc.args EXCEPT !.is_release = 0], calc.draws)
\* 1.15 x, capped at 100
ReleaseCpu(cpu) == Min(100000, Scale(cpu, 1150000))

\* C17: the release modifier comes last, the floor before the multipliers:
\* what it starts from is what the call without the release flag ends with;
\* where the profile has a release addition (react-native, android, ios) the
\* returned memory is at least the lower bound of the release memory
\* interval and the returned cpu at least min(100, 1.15 x the lower bound of
\* the release cpu interval); where it has none (python, java, nodejs) the
\* memory is unchanged, time is multiplied by a factor in [1.3, 1.6] and cpu
\* by 1.15 capped at 100.
C17_ReleaseModifier ==
    (Called /\ calc.args.is_release # 0) =>
        LET profile == RESOURCE_PROFILES[calc.args.project_type_name]
            plain == NotAsRelease.final
        IN /\ calc.before_release = plain
           /\ calc.final.time_val >= Scale(plain.time_val, 1300000)
           /\ calc.final.time_val <= Scale(plain.time_val, 1600000)
           /\ IF calc.args.project_type_name \in {"react-native", "android", "ios"}
              THEN /\ calc.result.memory_gb >= profile.release.memory_gb[1]
                   /\ calc.final.cpu_val >= ReleaseCpu(profile.release.cpu_pct[1])
                   /\ calc.result.cpu_avg_pct
                        >= RoundMilli(ReleaseCpu(profile.release.cpu_pct[1]), 100)
              ELSE /\ calc.final.memory_val = plain.memory_val
                   /\ calc.result.memory_gb = NotAsRelease.result.memory_gb
                   /\ calc.final.cpu_val = ReleaseCpu(plain.cpu_val)
\* a react-native release build on the lowest draws: cpu 50 is raised to the
\* floor 65 and then multiplied to 74.75
C17_Witness ==
    /\ Called
    /\ calc.args.is_release = 1
    /\ calc.args.project_type_name = "react-native"
    /\ calc.args.is_clean_build = 0
    /\ calc.before_release.cpu_val = 50000
    /\ calc.final.cpu_val = 74750
    /\ calc.result.memory_gb = 8000

\* a record is in the making or made, and its resources have been computed
Labelled == record # NoRecord /\ gen_pc \in {"status", "context", "done", "crashed"}
\* generate_single_record has returned the record
Generated == record # NoRecord /\ gen_pc \in {"context", "done"}

\* C18: in every generated record is_first_build = 1 implies
\* cache_available = 0, and the resource label of the record is computed
\* with the record's own cache_available, is_first_build, is_clean_build and
\* is_monorepo.
C18_CacheState ==
    /\ record # NoRecord => (record.is_first_build = 1 => record.cache_available = 0)
    /\ Labelled =>
            /\ calc.args.cache_available = record.cache_available
            /\ calc.args.is_first_build = record.is_first_build
            /\ calc.args.is_clean_build = record.is_clean_build
            /\ calc.args.is_monorepo = record.is_monorepo
    /\ Generated =>
            /\ record.memory_gb = calc.result.memory_gb
            /\ record.cpu_avg_pct = calc.result.cpu_avg_pct
            /\ record.build_time_min = calc.result.build_time_min
\* a generated record of a first build, clean and in a monorepo
C18_Witness ==
    /\ Generated
    /\ record.is_first_build = 1 /\ record.cache_available = 0
    /\ record.is_clean_build = 1 /\ record.is_monorepo = 1
    /\ record.memory_gb = calc.result.memory_gb

\* the probability generate_pipeline_config is to use for a stage flag
StageProbability(flag) ==
    LET p == PIPELINE_PROBABILITIES[pipeline_call.project_type_name][flag]
    IN IF pipeline_call.is_release THEN Min(1000, (p * 13) \div 10) ELSE p
\* the draw of random() that decides a stage flag (308-313)
StageDraw(flag) ==
    LET k == IF pipeline_call.is_release THEN 3 ELSE 4
    IN CASE flag = "has_unit_tests" -> pipeline_call.draws[1]
         [] flag = "has_integration_tests" -> pipeline_call.draws[2]
         [] flag = "has_e2e_tests" -> pipeline_call.draws[3]
         [] flag = "has_docker_build" -> pipeline_call.draws[k + 1]
         [] flag = "uses_emulator" -> pipeline_call.draws[k + 2]

\* C19: for a release record every stage probability of the table (unit
\* tests, integration tests, e2e tests, docker build, emulator) is used as
\* min(1.0, 1.3 x table probability), for any other record unscaled: each
\* flag is 1 exactly when its draw is below that probability.
C19_ReleaseScaling ==
    pipeline_call # NoCall =>
        \A flag \in StageFlags :
            pipeline_call.config[flag] = 1 <=> StageDraw(flag) < StageProbability(flag)

\* the status step of a record has run
StatusDrawn == status_draw # NoStatusDraw

\* C20: with an empirical status distribution each status value is drawn
\* with its own empirical rate, whatever the values and their order of
\* frequency; with none (no path or no file) the status is success with
\* probability 0.88 and failed with 0.12.
C20_StatusRates ==
    StatusDrawn =>
        IF kaggle_source.path /\ kaggle_source.exists
        THEN /\ status_draw.err = ""
             /\ Len(status_draw.a) = Len(kaggle_source.status_rates)
             /\ Len(status_draw.p) = Len(kaggle_source.status_rates)
             /\ \A i \in 1..Len(kaggle_source.status_rates) :
                    /\ status_draw.a[i] = kaggle_source.status_rates[i].status
                    /\ status_draw.p[i] = kaggle_source.status_rates[i].rate
        ELSE /\ status_draw.err = ""
             /\ status_draw.a = <<"success", "failed">>
             /\ status_draw.p = <<880, 120>>

\* min <= max
NonEmpty(interval) == interval[1] <= interval[2]

\* C21: every interval that is sampled is non-empty: each interval of the
\* profile table has min <= max, and for every project type and every
\* combination of stage flags the widened memory, cpu and time intervals have
\* lower bound <= upper bound.
C21_NonEmptyIntervals ==
    /\ \A name \in Range(GEN_PROJECT_TYPES) :
          \A stage \in DOMAIN RESOURCE_PROFILES[name] :
              /\ NonEmpty(RESOURCE_PROFILES[name][stage].memory_gb)
              /\ NonEmpty(RESOURCE_PROFILES[name][stage].cpu_pct)
              /\ NonEmpty(RESOURCE_PROFILES[name][stage].time_min)
    /\ Called =>
          /\ NonEmpty(calc.intervals.memory)
          /\ NonEmpty(calc.intervals.cpu)
          /\ NonEmpty(calc.intervals.time)
          /\ Within(calc.sampled.memory_val, calc.intervals.memory)
          /\ Within(calc.sampled.cpu_val, calc.intervals.cpu)
          /\ Within(calc.sampled.time_val, calc.intervals.time)
\* an android pipeline with the emulator alone: the time lower bound, that of
\* the emulator, is above the upper bound of the baseline
C21_Witness ==
    /\ Called
    /\ calc.args.project_type_name = "android"
    /\ calc.additions = <<"emulator">>
    /\ calc.intervals.time = <<45000, 80000>>
    /\ calc.intervals.time[1] > RESOURCE_PROFILES["android"].base.time_min[2]

\* C22: for every project type, pipeline configuration and combination of
\* the cache, first-build, clean, monorepo and release flags the cpu value
\* calculate_resources returns is at most 100 and at least the lower bound of
\* the baseline cpu interval of the project type.
C22_CpuRange ==
    Called =>
        LET base == RESOURCE_PROFILES[calc.args.project_type_name].base
        IN /\ calc.result.cpu_avg_pct <= 100000
           /\ calc.result.cpu_avg_pct >= base.cpu_pct[1]
           /\ calc.final.cpu_val <= 100000
           /\ calc.final.cpu_val >= base.cpu_pct[1]
\* a clean release build whose cpu, multiplied by 1.1 and then by 1.15, is
\* cut at 100
C22_Witness ==
    /\ Called
    /\ calc.args.is_clean_build = 1 /\ calc.args.is_release = 1
    /\ Scale(calc.sampled.cpu_val, 1100000) > 100000
    /\ calc.before_release.cpu_val = 100000
    /\ calc.result.cpu_avg_pct = 100000

\* the running values of the last call after each step: the sample, then
\* no-cache, first build, clean build, monorepo and release
ModifierSteps ==
    LET profile == RESOURCE_PROFILES[calc.args.project_type_name]
        s1 == NoCacheModifier(profile, calc.args.cache_available, calc.sampled, calc.draws)
        s2 == FirstBuildModifier(calc.args.is_first_build, s1, calc.draws)
        s3 == CleanBuildModifier(calc.args.is_clean_build, s2, calc.draws)
        s4 == MonorepoModifier(calc.args.is_monorepo, s3, calc.draws)
        s5 == ReleaseModifier(profile, calc.args.is_release, s4, calc.draws)
    IN <<calc.sampled, s1, s2, s3, s4, s5>>
\* time and memory of the second are at least those of the first
NotLowered(before, after) ==
    after.time_val >= before.time_val /\ after.memory_val >= before.memory_val

\* C23: no modifier lowers time or memory: after each of the steps no-cache,
\* first build, clean build, monorepo and release the running time and memory
\* are at least what they were before the step, so the returned time and
\* memory are at least the lower bounds of the sampled intervals and are
\* non-negative.
C23_NoModifierLowers ==
    Called =>
        /\ ModifierSteps[5] = calc.before_release
        /\ ModifierSteps[6] = calc.final
        /\ \A i \in 1..5 : NotLowered(ModifierSteps[i], ModifierSteps[i + 1])
        /\ calc.result.build_time_min >= calc.intervals.time[1]
        /\ calc.result.memory_gb >= calc.intervals.memory[1]
        /\ calc.result.build_time_min >= 0
        /\ calc.result.memory_gb >= 0
\* a call with the five modifiers, each of which raises the time
C23_Witness ==
    /\ Called
    /\ calc.args.cache_available = 0 /\ calc.args.is_first_build = 1
    /\ calc.args.is_clean_build = 1 /\ calc.args.is_monorepo = 1
    /\ calc.args.is_release = 1
    /\ \A i \in 1..5 : ModifierSteps[i + 1].time_val > ModifierSteps[i].time_val
    /\ calc.final.memory_val > calc.sampled.memory_val

\* the code the feature engineer gives a context with this branch name alone
InferredFromName(branch) == branch_type_of("branch" :> StrV(branch))
\* the code the feature engineer gives a context with this project type
EncodedProjectType(name) == project_type_of("projectType" :> StrV(name))

\* C24: the generator's labels round-trip through the encoder of the
\* predictor: for every branch type code 0..4 every branch name that
\* generate_branch_name can produce is inferred back to the same code by the
\* branch-name rules of engineer_features, and for every project type code
\* 0..5 the generator's project type name is encoded back to the same code.
C24_LabelsRoundTrip ==
    record # NoRecord =>
        /\ InferredFromName(record.branch) = Ok(IntV(record.branch_type))
        /\ EncodedProjectType(GEN_PROJECT_TYPE_CHARS[record.project_type + 1])
              = Ok(IntV(record.project_type))
\* a generated record of a react-native build on the branch hotfix/fix
C24_Witness ==
    /\ Generated
    /\ record.branch_type = 3
    /\ record.branch = <<"h","o","t","f","i","x","/","f","i","x">>
    /\ record.project_type = 3 /\ record.project_type_name = "react-native"
    /\ InferredFromName(record.branch) = Ok(IntV(3))

====
